---- MODULE Spec2Model ----
(***************************************************************************)
(* Composer: the lyrics acquisition pipeline.                              *)
(*                                                                         *)
(*   Spec    the window's auto-download batch (window.py) over the         *)
(*           window's LyricsService (lyrics_service.py) and the scanner    *)
(*           (music_scanner.py): one GLib main loop, worker threads.       *)
(*   SpecRL  one RateLimiter (lrclib_client.py) with concurrent callers    *)
(*           and a clock.                                                  *)
(*                                                                         *)
(* Strings are sequences of one-character strings, so that a key such as   *)
(* f"{artist}_{title}" is a concatenation the model computes.              *)
(***************************************************************************)
EXTENDS Integers, Sequences, FiniteSets, TLC

\* ------------------------------------------------------------------ bounds
\* directory selections the user makes in one run
MaxSelections == 2

\* --------------------------------------------------------------- the library
\* Music files as the scanner reports them (_extract_metadata): a path
\* (stem, extension) and the tags. T1 and T2 are one song in two formats,
\* T3 carries the same tags with another capitalisation of the artist.
T1 == [path |-> [stem |-> "s1", ext |-> "mp3"],  artist |-> <<"a">>, title |-> <<"x">>]
T2 == [path |-> [stem |-> "s1", ext |-> "flac"], artist |-> <<"a">>, title |-> <<"x">>]
T3 == [path |-> [stem |-> "s2", ext |-> "mp3"],  artist |-> <<"A">>, title |-> <<"x">>]
Tracks == {T1, T2, T3}
NoTrack == [path |-> [stem |-> "", ext |-> ""], artist |-> <<>>, title |-> <<>>]

\* the directories the user can select, each as os.walk lists its files
DirListings == {<<T1, T2>>, <<T3, T1>>}

\* FileService.get_lrc_file_path: Path(music_file_path).with_suffix('.lrc')
get_lrc_file_path(p) == [stem |-> p.stem, ext |-> "lrc"]

\* LyricsService.search_lyrics_async, line 66: search_key = f"{artist}_{title}"
search_key(artist, title) == artist \o <<"_">> \o title

\* str.lower() on the alphabet the library uses
lower_char(c) ==
  CASE c = "A" -> "a" [] c = "B" -> "b" [] c = "H" -> "h" [] c = "I" -> "i"
    [] c = "L" -> "l" [] c = "R" -> "r" [] c = "W" -> "w" [] c = "X" -> "x"
    [] c = "U" -> "u"
    [] OTHER -> c
lower(s) == [i \in DOMAIN s |-> lower_char(s[i])]

\* the attributes the code looks up on classes it does not subclass or extend
\* threading.Thread (standard library): no cancel()
ThreadMethods == {"start", "run", "join", "is_alive"}
\* class FileService, file_service.py 29-425: every method it defines
FileServiceMethods ==
  {"_get_logger", "_get_settings_service", "_get_storage_method", "_invalidate_cache",
   "get_lrc_file_path", "lrc_file_exists", "lyrics_exist", "lyrics_exist_bulk",
   "_lyrics_exist_in_metadata", "backup_existing_file", "write_lrc_file",
   "check_write_permission", "get_safe_filename", "delete_lrc_file", "read_lrc_file",
   "lyrics_exist_async", "_lyrics_exist_in_metadata_bulk"}

StorageMethods == {"lrc", "metadata", "both"}

\* ------------------------------------------------------------------- state
VARIABLES
  \* ComposerWindow (window.py 53-57)
  auto_download_queue, auto_download_in_progress,
  auto_download_completed, auto_download_total,
  \* main_stack's visible child: "welcome" or "library"
  view,
  \* the window's LyricsService._current_searches: search_key -> thread
  _current_searches,
  \* MusicScanner._cancel_requested
  _cancel_requested,
  \* the threads: search and download workers, and scan threads
  workers, scans,
  \* the GLib main loop's pending idle callbacks, oldest first
  idleq,
  \* the .lrc files on disk
  lrc_files,
  \* directory selections made so far
  selections,
  \* history the properties read, written by the handlers:
  \* the set_auto_download_state calls of the last handler
  reported,
  \* the search_lyrics_async call of the last handler, if it made one
  last_search,
  \* what the last step did to the storage targets, if it ended a download
  last_save,
  \* searches started so far, and per identity the newest search delivered
  nsearch, last_delivered,
  \* the batch started last: its size at start, and how many of its tracks
  \* had no result and how many were handed to a download since
  batch,
  \* the RateLimiter (lrclib_client.py 33-37): requests, lock holder, the
  \* callers, the clock, and the grants made so far
  requests, lock, callers, clock, grants,
  \* download_lyrics_async calls made so far, and the signals the service has
  \* emitted on the main loop, oldest first
  ncalls, signals,
  \* one call of the LRCLIB client: the search_lyrics / get_lyrics_by_id
  \* invocations that have not returned, innermost last; the waits on the rate
  \* limiter and the requests made, oldest first; what the call returned; and
  \* what the search thread and the window made of it
  frames, net_log, returned, pipeline,
  \* one call of LyricsResult._calculate_string_similarity and one LyricsResult
  \* with the calculate_accuracy_score calls made on it
  sim_call, score_call,
  \* what has been executed so far of the service's work and of its signals
  \* and callbacks, each with the thread that executed it
  ran,
  \* the files FileService writes: path -> content, and the write_lrc_file
  \* calls made so far
  disk, fs_calls,
  \* the threads that are inside write_lrc_file, and what has been copied and
  \* written so far, each with the disk it found
  writers, fs_log,
  \* SettingsService.settings, the values its backend holds, and the last
  \* accessor call made on the service
  settings, cfg_call,
  \* the two LRCLibClient objects of the application, the threads inside
  \* their requests, and the requests sent to the API
  api,
  \* FileService._cached_storage_method, the .lrc files on the disk, the music
  \* files with lyrics in their tags, and the lyrics_exist calls made so far
  file_service,
  \* the scans that were running when cancel_scan was called
  cancelled

winVars == <<auto_download_queue, auto_download_in_progress,
             auto_download_completed, auto_download_total, view>>
svcVars == <<_current_searches, workers, nsearch>>
scanVars == <<_cancel_requested, scans, selections>>
histVars == <<last_delivered, batch>>
stepVars == <<reported, last_search, last_save>>
appVars == <<winVars, svcVars, scanVars, histVars, stepVars, idleq, lrc_files>>
rlVars == <<requests, lock, callers, clock, grants>>
dlVars == <<ncalls, signals>>
\* what the steps of the window's batch leave alone
cliVars == <<frames, net_log, returned, pipeline>>
scoreVars == <<sim_call, score_call>>
\* the parts of the program that take no part in the service's flows
evVars == <<ran>>
fsVars == <<disk, fs_calls, writers, fs_log>>
cfgVars == <<settings, cfg_call>>
lateVars == <<api, file_service, cancelled>>
extVars == <<fsVars, cfgVars, lateVars>>
otherVars == <<scoreVars, evVars, extVars>>
offVars == <<rlVars, dlVars, cliVars, otherVars>>
\* what the steps of the RateLimiter leave alone
restVars == <<appVars, dlVars, cliVars, otherVars>>
\* what the steps of the service's threads and of the client leave alone
idleVars == <<rlVars, otherVars>>
vars == <<appVars, rlVars, dlVars, cliVars, otherVars>>

\* concurrent search and download threads the table has room for
MaxWorkers == 2 * MaxSelections + 2
Slots == 1 .. MaxWorkers

Free == [kind |-> "free", pc |-> "", track |-> NoTrack, epoch |-> 0, seq |-> 0,
         key |-> <<>>]
NoScan == [pc |-> "none", remaining |-> <<>>]
NoSearchCall == [called |-> FALSE, key |-> <<>>, superseding |-> FALSE,
                 started |-> FALSE]
NoSave == [method |-> "", lrc |-> "none", metadata |-> "none"]
NoBatch == [started |-> FALSE, n |-> 0, no_results |-> 0, downloads |-> 0]

\* one pending idle callback: GLib.idle_add(f, args...)
Msg(type, track, epoch, seq, results) ==
  [type |-> type, track |-> track, epoch |-> epoch, seq |-> seq,
   results |-> results]

\* the identity of a search request as the specification defines it
Identity(track) == <<lower(track.artist), lower(track.title)>>
Identities == {Identity(t) : t \in Tracks}

\* ---------------------------------------------------- main-loop handlers
\* A handler runs to its end on the main loop. It is written as a function of
\* the record s of what it reads and writes; Now is that record before the
\* handler, Commit(s) installs the record it returns.
Now ==
  [queue |-> auto_download_queue, in_progress |-> auto_download_in_progress,
   completed |-> auto_download_completed, total |-> auto_download_total,
   searches |-> _current_searches, workers |-> workers, nsearch |-> nsearch,
   epoch |-> selections, batch |-> batch,
   reported |-> <<>>, last_search |-> NoSearchCall]

Commit(s) ==
  /\ auto_download_queue' = s.queue
  /\ auto_download_in_progress' = s.in_progress
  /\ auto_download_completed' = s.completed
  /\ auto_download_total' = s.total
  /\ _current_searches' = s.searches
  /\ workers' = s.workers
  /\ nsearch' = s.nsearch
  /\ batch' = s.batch
  /\ reported' = s.reported
  /\ last_search' = s.last_search
  /\ last_save' = NoSave

HasFreeSlot == \E i \in Slots : workers[i].kind = "free"
FreeSlot(w) == CHOOSE i \in Slots :
                 /\ w[i].kind = "free"
                 /\ \A j \in Slots : j < i => w[j].kind # "free"

\* threading.Thread(target=..., daemon=True) followed by start()
StartThread(s, thread) == [s EXCEPT !.workers[FreeSlot(s.workers)] = thread]

\* LibraryView.set_auto_download_state: the progress the view is given
set_auto_download_state(s, is_downloading, completed, total) ==
  [s EXCEPT !.reported = Append(@, <<is_downloading, completed, total>>)]

\* LyricsService.search_lyrics_async. Line 72 calls cancel() on the Thread
\* registered under the key; threading.Thread has no such method, so the call
\* raises AttributeError and the handler that made it ends there.
search_lyrics_async(s, track) ==
  LET key == search_key(track.artist, track.title)
      existing == key \in DOMAIN s.searches
      tid == FreeSlot(s.workers)
      thread == [kind |-> "search", pc |-> "search", track |-> track,
                 epoch |-> s.epoch, seq |-> s.nsearch + 1, key |-> key]
  IN IF existing /\ "cancel" \notin ThreadMethods
     THEN [s EXCEPT !.last_search = [called |-> TRUE, key |-> key,
                                     superseding |-> TRUE, started |-> FALSE]]
     ELSE [s EXCEPT
             !.workers[tid] = thread,
             !.searches = [k \in DOMAIN s.searches \cup {key} |->
                             IF k = key THEN tid ELSE s.searches[k]],
             !.nsearch = @ + 1,
             !.last_search = [called |-> TRUE, key |-> key,
                              superseding |-> existing, started |-> TRUE]]

\* LyricsService.download_lyrics_async
download_lyrics_async(s, track, epoch) ==
  StartThread(s, [kind |-> "download", pc |-> "save", track |-> track,
                  epoch |-> epoch, seq |-> 0, key |-> <<>>])

\* ComposerWindow._process_next_auto_download
_process_next_auto_download(s) ==
  IF s.queue = <<>>
  THEN set_auto_download_state([s EXCEPT !.in_progress = FALSE],
                               FALSE, s.completed, s.total)
  ELSE search_lyrics_async([s EXCEPT !.queue = Tail(@)], Head(s.queue))

\* ComposerWindow._start_auto_download
_start_auto_download(s) ==
  IF s.queue = <<>> \/ s.in_progress
  THEN s
  ELSE _process_next_auto_download(
         set_auto_download_state(
           [s EXCEPT !.in_progress = TRUE,
                     !.batch = [started |-> TRUE, n |-> s.total, no_results |-> 0,
                                downloads |-> 0]],
           TRUE, s.completed, s.total))

\* ComposerWindow._on_file_found; auto and overwrite are the settings as read
\* by this call, exists is FileService.lrc_file_exists(music_file['path'])
_on_file_found(s, track, auto, overwrite, exists) ==
  IF auto /\ (overwrite \/ ~exists)
  THEN [s EXCEPT !.queue = Append(@, track)]
  ELSE s

\* ComposerWindow._on_scan_completed
_on_scan_completed(s, auto) ==
  IF auto /\ s.queue # <<>>
  THEN _start_auto_download([s EXCEPT !.total = Len(s.queue), !.completed = 0])
  ELSE s

\* the count of the running batch goes up for one of its own tracks
Counted(s, epoch, field) ==
  IF epoch = s.epoch THEN [s EXCEPT !.batch[field] = @ + 1] ELSE s

\* ComposerWindow._handle_auto_download_search_results
_handle_auto_download_search_results(s, track, results, epoch) ==
  IF results # <<>>
  THEN download_lyrics_async(Counted(s, epoch, "downloads"), track, epoch)
  ELSE _process_next_auto_download(
         set_auto_download_state(
           [Counted(s, epoch, "no_results") EXCEPT !.completed = @ + 1],
           TRUE, s.completed + 1, s.total))

\* ComposerWindow._on_auto_download_completed
_on_auto_download_completed(s, epoch) ==
  _process_next_auto_download(
    set_auto_download_state([s EXCEPT !.completed = @ + 1],
                            TRUE, s.completed + 1, s.total))

_on_auto_download_error_unreported(s, epoch) ==
  _process_next_auto_download([s EXCEPT !.completed = @ + 1])

\* ComposerWindow._on_auto_download_error
_on_auto_download_error(s, epoch) ==
  _process_next_auto_download(
    set_auto_download_state([s EXCEPT !.completed = @ + 1],
                            TRUE, s.completed + 1, s.total))

\* a step that is no window handler: it reports no progress and makes no
\* search_lyrics_async call
Quiet == reported' = <<>> /\ last_search' = NoSearchCall /\ last_save' = NoSave

\* ------------------------------------------------------------ user actions
\* ComposerWindow._on_directory_selected, with MusicScanner.scan_directory_async:
\* files is what os.walk will find in the chosen directory
_on_directory_selected(files) ==
  /\ selections < MaxSelections
  /\ auto_download_queue' = <<>>
  /\ auto_download_in_progress' = FALSE
  /\ auto_download_completed' = 0
  /\ auto_download_total' = 0
  /\ view' = "library"
  /\ _cancel_requested' = FALSE
  /\ selections' = selections + 1
  /\ scans' = [scans EXCEPT ![selections + 1] = [pc |-> "count", remaining |-> files]]
  /\ Quiet
  /\ batch' = NoBatch
  /\ UNCHANGED <<svcVars, last_delivered, idleq, lrc_files, offVars>>

\* ComposerWindow._on_back_button_clicked, with MusicScanner.cancel_scan; the
\* button is visible in the library view only. Spec follows a window whose
\* user stays in the library view and takes no such step.
_on_back_button_clicked ==
  /\ view = "library"
  /\ view' = "welcome"
  /\ _cancel_requested' = TRUE
  /\ cancelled' = cancelled \cup {i \in DOMAIN scans : scans[i].pc # "none"}
  /\ Quiet
  /\ UNCHANGED <<auto_download_queue, auto_download_in_progress,
                 auto_download_completed, auto_download_total, svcVars, scans,
                 selections, last_delivered, batch, idleq, lrc_files,
                 rlVars, dlVars, cliVars, scoreVars, evVars, fsVars, cfgVars,
                 api, file_service>>

\* ------------------------------------------------------------ scan thread
\* MusicScanner._scan_thread on a directory without subdirectories. Its
\* scan-started and scan-progress events reach the view's widgets only and are
\* left out of the queue.
ScanEnds(i) == scans' = [scans EXCEPT ![i] = NoScan]

\* first pass, lines 61-66: count the files
ScanCount(i) ==
  /\ scans[i].pc = "count"
  /\ IF _cancel_requested THEN ScanEnds(i)
     ELSE scans' = [scans EXCEPT ![i].pc = "walk"]
  /\ Quiet
  /\ UNCHANGED <<winVars, svcVars, _cancel_requested, selections, histVars, idleq,
                 lrc_files, offVars>>

\* second pass, lines 69-71: the check made for the directory
ScanWalk(i) ==
  /\ scans[i].pc = "walk"
  /\ IF _cancel_requested THEN ScanEnds(i)
     ELSE scans' = [scans EXCEPT ![i].pc = "file"]
  /\ Quiet
  /\ UNCHANGED <<winVars, svcVars, _cancel_requested, selections, histVars, idleq,
                 lrc_files, offVars>>

\* second pass, lines 73-86: one file
ScanFile(i) ==
  /\ scans[i].pc = "file"
  /\ scans[i].remaining # <<>>
  /\ IF _cancel_requested
     THEN ScanEnds(i) /\ idleq' = idleq
     ELSE /\ scans' = [scans EXCEPT ![i].remaining = Tail(@)]
          /\ idleq' = Append(idleq, Msg("file-found", Head(scans[i].remaining),
                                        0, 0, <<>>))
  /\ Quiet
  /\ UNCHANGED <<winVars, svcVars, _cancel_requested, selections, histVars,
                 lrc_files, offVars>>

\* line 88, reached when the loops end
ScanCompleted(i) ==
  /\ scans[i].pc = "file"
  /\ scans[i].remaining = <<>>
  /\ ScanEnds(i)
  /\ idleq' = Append(idleq, Msg("scan-completed", NoTrack, 0, 0, <<>>))
  /\ Quiet
  /\ UNCHANGED <<winVars, svcVars, _cancel_requested, selections, histVars,
                 lrc_files, offVars>>

\* ----------------------------------------------------------- search worker
\* what one LRCLibClient.search_lyrics call meets on the network
SearchOutcomes == {"found", "none", "failure"}

\* LRCLibClient.search_lyrics as its caller sees it: a list of candidates, and
\* the empty list for every failure (lines 169-184)
search_lyrics(outcome) == IF outcome = "found" THEN <<"c1">> ELSE <<>>

WorkerRest == <<winVars, _current_searches, nsearch, scanVars, histVars, lrc_files,
                offVars>>

\* LyricsService._search_lyrics_thread, lines 87-109: the search, then
\* _emit_search_completed is queued. The 'search-started' event of line 90 and
\* the 'download-started' event of line 165 have no handler in the window and
\* are left out of the queue.
SearchRun(t) ==
  /\ workers[t].kind = "search" /\ workers[t].pc = "search"
  /\ \E outcome \in SearchOutcomes :
       idleq' = Append(idleq, Msg("search-completed", workers[t].track,
                                  workers[t].epoch, workers[t].seq,
                                  search_lyrics(outcome)))
  /\ workers' = [workers EXCEPT ![t].pc = "finally"]
  /\ Quiet
  /\ UNCHANGED WorkerRest

search_ends_without_cleanup(t) ==
  /\ workers[t].kind = "search" /\ workers[t].pc = "finally"
  /\ workers' = [workers EXCEPT ![t] = Free]
  /\ Quiet
  /\ UNCHANGED <<WorkerRest, idleq>>

\* line 118: if search_key in self._current_searches
SearchFinally(t) ==
  /\ workers[t].kind = "search" /\ workers[t].pc = "finally"
  /\ workers' = [workers EXCEPT ![t] =
                   IF workers[t].key \in DOMAIN _current_searches
                   THEN [@ EXCEPT !.pc = "del"] ELSE Free]
  /\ Quiet
  /\ UNCHANGED <<WorkerRest, idleq>>

\* line 120: del self._current_searches[search_key]; the thread ends
SearchDel(t) ==
  /\ workers[t].kind = "search" /\ workers[t].pc = "del"
  /\ _current_searches' = [k \in DOMAIN _current_searches \ {workers[t].key} |->
                             _current_searches[k]]
  /\ workers' = [workers EXCEPT ![t] = Free]
  /\ Quiet
  /\ UNCHANGED <<winVars, nsearch, scanVars, histVars, lrc_files, offVars, idleq>>

\* --------------------------------------------------------- download worker
_download_lyrics_thread_needs_both(method, lrc_ok, metadata_ok) ==
  LET wants_lrc == method \in {"lrc", "both"}
      wants_metadata == method \in {"metadata", "both"}
      raised == wants_lrc /\ "process_empty_lrc_lines" \notin FileServiceMethods
      lrc_success == wants_lrc /\ ~raised /\ lrc_ok
      metadata_success == wants_metadata /\ ~raised /\ metadata_ok
      success == lrc_success /\ metadata_success
  IN [event |-> IF success THEN "download-completed" ELSE "download-error",
      save |-> [method |-> method,
                lrc |-> IF ~wants_lrc THEN "none"
                        ELSE IF lrc_success THEN "written" ELSE "failed",
                metadata |-> IF ~wants_metadata \/ raised THEN "none"
                             ELSE IF metadata_success THEN "written" ELSE "failed"]]

\* lines 184-229 of LyricsService._download_lyrics_thread: the event the thread
\* queues and what became of each storage target ("written", "failed", or
\* "none" when the target was not attempted). lrc_ok and metadata_ok are what
\* FileService.write_lrc_file and _save_lyrics_to_metadata would return.
\* Line 192 calls FileService.process_empty_lrc_lines, which FileService does
\* not define: the AttributeError is caught at line 226.
_download_lyrics_thread(method, lrc_ok, metadata_ok) ==
  LET wants_lrc == method \in {"lrc", "both"}
      wants_metadata == method \in {"metadata", "both"}
      raised == wants_lrc /\ "process_empty_lrc_lines" \notin FileServiceMethods
      lrc_success == wants_lrc /\ ~raised /\ lrc_ok
      metadata_success == wants_metadata /\ ~raised /\ metadata_ok
      success == lrc_success \/ metadata_success
  IN [event |-> IF success THEN "download-completed" ELSE "download-error",
      save |-> [method |-> method,
                lrc |-> IF ~wants_lrc THEN "none"
                        ELSE IF lrc_success THEN "written" ELSE "failed",
                metadata |-> IF ~wants_metadata \/ raised THEN "none"
                             ELSE IF metadata_success THEN "written" ELSE "failed"]]

\* LyricsService._download_lyrics_thread, lines 162-229; the storage method is
\* the setting as read at line 185
DownloadSave(t) ==
  /\ workers[t].kind = "download" /\ workers[t].pc = "save"
  /\ \E method \in StorageMethods, lrc_ok \in BOOLEAN, metadata_ok \in BOOLEAN :
       LET out == _download_lyrics_thread(method, lrc_ok, metadata_ok)
       IN /\ idleq' = Append(idleq, Msg(out.event, workers[t].track,
                                        workers[t].epoch, workers[t].seq, <<>>))
          /\ last_save' = out.save
          /\ lrc_files' = IF out.save.lrc = "written"
                          THEN lrc_files \cup {get_lrc_file_path(workers[t].track.path)}
                          ELSE lrc_files
  /\ workers' = [workers EXCEPT ![t] = Free]
  /\ reported' = <<>>
  /\ last_search' = NoSearchCall
  /\ UNCHANGED <<winVars, _current_searches, nsearch, scanVars, histVars, offVars>>

\* ---------------------------------------------------------- the main loop
\* The main loop runs the oldest pending idle callback. A handler that may
\* start a thread waits for a free row of the thread table.
Pending(type) == idleq # <<>> /\ Head(idleq).type = type /\ HasFreeSlot

DispatchRest == <<view, scanVars, lrc_files, offVars>>

\* 'file-found' -> ComposerWindow._on_file_found
DispatchFileFound ==
  /\ Pending("file-found")
  /\ \E auto \in BOOLEAN, overwrite \in BOOLEAN :
       Commit(_on_file_found(Now, Head(idleq).track, auto, overwrite,
                get_lrc_file_path(Head(idleq).track.path) \in lrc_files))
  /\ idleq' = Tail(idleq)
  /\ UNCHANGED <<DispatchRest, last_delivered>>

\* 'scan-completed' -> ComposerWindow._on_scan_completed
DispatchScanCompleted ==
  /\ Pending("scan-completed")
  /\ \E auto \in BOOLEAN : Commit(_on_scan_completed(Now, auto))
  /\ idleq' = Tail(idleq)
  /\ UNCHANGED <<DispatchRest, last_delivered>>

\* LyricsService._emit_search_completed: the 'search-completed' signal, then
\* the callback given to search_lyrics_async (window.py line 223)
_emit_search_completed ==
  /\ Pending("search-completed")
  /\ LET m == Head(idleq)
     IN /\ Commit(_handle_auto_download_search_results(Now, m.track, m.results, m.epoch))
        /\ last_delivered' = [last_delivered EXCEPT ![Identity(m.track)] =
                                IF m.seq > @ THEN m.seq ELSE @]
  /\ idleq' = Tail(idleq)
  /\ UNCHANGED DispatchRest

\* 'download-completed' -> ComposerWindow._on_auto_download_completed
DispatchDownloadCompleted ==
  /\ Pending("download-completed")
  /\ Commit(_on_auto_download_completed(Now, Head(idleq).epoch))
  /\ idleq' = Tail(idleq)
  /\ UNCHANGED <<DispatchRest, last_delivered>>

\* 'download-error' -> ComposerWindow._on_auto_download_error
DispatchDownloadError ==
  /\ Pending("download-error")
  /\ Commit(_on_auto_download_error(Now, Head(idleq).epoch))
  /\ idleq' = Tail(idleq)
  /\ UNCHANGED <<DispatchRest, last_delivered>>

\* ------------------------------------------------------- the specification
DlIdle ==
  /\ ncalls = 0
  /\ signals = <<>>

NotReturned == [by |-> "none", raised |-> FALSE, value |-> <<>>]
NoPipeline == [stage |-> "none", unique_results |-> <<>>, download |-> <<>>]

CliIdle ==
  /\ frames = <<>>
  /\ net_log = <<>>
  /\ returned = NotReturned
  /\ pipeline = NoPipeline

NoSimCall == [str1 |-> <<>>, str2 |-> <<>>, ret |-> <<>>]
NoScoreCall == [self |-> <<>>, target |-> <<>>, returns |-> <<>>]

\* no client built yet, nothing cached, no scan cancelled
NoApi == [clients |-> <<>>, threads |-> <<>>, sent |-> <<>>, clock |-> 0]
NoFileService ==
  [_cached_storage_method |-> "None", lrc |-> {}, embedded |-> {}, calls |-> <<>>]
LateIdle ==
  /\ api = NoApi
  /\ file_service = NoFileService
  /\ cancelled = {}

\* no file written, and a SettingsService whose schema could not be loaded
NoCfgCall == [n |-> 0, op |-> "", key |-> "", raised |-> FALSE]
ExtIdle ==
  /\ disk = <<>>
  /\ fs_calls = <<>>
  /\ writers = <<>>
  /\ fs_log = <<>>
  /\ settings = [loaded |-> FALSE, values |-> <<>>]
  /\ cfg_call = NoCfgCall
  /\ LateIdle

OtherIdle ==
  /\ sim_call = NoSimCall
  /\ score_call = NoScoreCall
  /\ ran = <<>>
  /\ ExtIdle

RLIdle ==
  /\ requests = <<>>
  /\ lock = 0
  /\ callers = <<>>
  /\ clock = 0
  /\ grants = <<>>


AppIdle ==
  /\ auto_download_queue = <<>>
  /\ auto_download_in_progress = FALSE
  /\ auto_download_completed = 0
  /\ auto_download_total = 0
  /\ view = "welcome"
  /\ _current_searches = <<>>
  /\ _cancel_requested = FALSE
  /\ workers = [i \in Slots |-> Free]
  /\ scans = [i \in 1 .. MaxSelections |-> NoScan]
  /\ idleq = <<>>
  /\ lrc_files = {get_lrc_file_path(T3.path)}
  /\ selections = 0
  /\ reported = <<>>
  /\ last_search = NoSearchCall
  /\ last_save = NoSave
  /\ nsearch = 0
  /\ last_delivered = [id \in Identities |-> 0]
  /\ batch = NoBatch

Init == AppIdle /\ RLIdle /\ DlIdle /\ CliIdle /\ OtherIdle

Next ==
  \/ \E files \in DirListings : _on_directory_selected(files)
  \/ \E i \in 1 .. MaxSelections :
       ScanCount(i) \/ ScanWalk(i) \/ ScanFile(i) \/ ScanCompleted(i)
  \/ \E t \in Slots :
       SearchRun(t) \/ SearchFinally(t) \/ SearchDel(t) \/ DownloadSave(t)
  \/ DispatchFileFound
  \/ DispatchScanCompleted
  \/ _emit_search_completed
  \/ DispatchDownloadCompleted
  \/ DispatchDownloadError

Spec == Init /\ [][Next]_vars

\* ------------------------------------------------- properties of the batch
TrackEvents == {"search-completed", "download-completed", "download-error"}

\* this step is the main loop running the oldest callback, one of these types
Dispatched(types) ==
  /\ idleq # <<>>
  /\ Head(idleq).type \in types
  /\ idleq' = Tail(idleq)

SearchesActive(id) ==
  {t \in Slots : /\ workers[t].kind = "search"
                 /\ workers[t].pc = "search"
                 /\ Identity(workers[t].track) = id}

\* C1: at most one search is active per identity, and a search_lyrics_async
\* call for a key that still has a search registered supersedes it and starts
\* the new search.
C1_SupersedeAndStart ==
  /\ (last_search.called /\ last_search.superseding) => last_search.started
  /\ \A id \in Identities : Cardinality(SearchesActive(id)) <= 1

\* C2: per identity, search results are delivered in the order the searches
\* were started: no result is delivered after that of a later search.
C2_NoResultAfterALaterOne ==
  [][Dispatched({"search-completed"}) =>
       Head(idleq).seq > last_delivered[Identity(Head(idleq).track)]]_vars

\* nothing is running and nothing is pending
Quiescent ==
  /\ idleq = <<>>
  /\ \A t \in Slots : workers[t].kind = "free"
  /\ \A i \in DOMAIN scans : scans[i].pc = "none"

\* C3: a started batch finishes. When every worker has ended and the main loop
\* has run every callback, the queue is empty and auto_download_in_progress
\* is false.
C3_BatchFinishes ==
  (batch.started /\ Quiescent) =>
    auto_download_queue = <<>> /\ ~auto_download_in_progress

\* the tracks of the current batch that are being searched or downloaded, or
\* whose terminal event waits for the main loop
InFlight ==
  Cardinality({t \in Slots :
                 /\ workers[t].epoch = selections
                 /\ \/ workers[t].kind = "search" /\ workers[t].pc = "search"
                    \/ workers[t].kind = "download"})
  + Cardinality({i \in DOMAIN idleq : /\ idleq[i].epoch = selections
                                      /\ idleq[i].type \in TrackEvents})

\* C4: at most one track of the batch is in flight at any time.
C4_OneTrackInFlight == InFlight <= 1

\* C5: a directory selection resets the auto-download state, and an event of
\* a batch begun before the last selection changes neither the counters nor
\* the queue and starts no thread.
C5_PreviousBatchDiscarded ==
  [][/\ selections' # selections =>
          /\ auto_download_queue' = <<>>
          /\ auto_download_completed' = 0
          /\ auto_download_total' = 0
          /\ ~auto_download_in_progress'
     /\ (Dispatched(TrackEvents) /\ Head(idleq).epoch < selections) =>
          /\ auto_download_completed' = auto_download_completed
          /\ auto_download_total' = auto_download_total
          /\ auto_download_queue' = auto_download_queue
          /\ workers' = workers]_vars

\* C6: when a batch started with n tracks finishes, completed = n = total and
\* the downloads attempted for its tracks are n minus its no-result tracks.
C6_CountsAtFinish ==
  [][(/\ auto_download_in_progress
      /\ ~auto_download_in_progress'
      /\ selections' = selections) =>
       /\ auto_download_completed' = auto_download_total'
       /\ auto_download_total' = batch'.n
       /\ batch'.downloads = batch'.n - batch'.no_results]_vars

\* a search result without candidates, or the end of a download
IsCompletion(m) ==
  \/ m.type \in {"download-completed", "download-error"}
  \/ m.type = "search-completed" /\ m.results = <<>>

\* C7: the handler of every per-track completion (no result, download
\* completed, download error) raises completed by exactly one and reports
\* the new completed with the total to the view, in that same step.
C7_ProgressAfterEveryTrack ==
  [][(Dispatched(TrackEvents) /\ IsCompletion(Head(idleq))) =>
       /\ auto_download_completed' = auto_download_completed + 1
       /\ auto_download_total' = auto_download_total
       /\ reported' # <<>>
       /\ reported'[1] = <<TRUE, auto_download_completed', auto_download_total'>>]_vars

\* the first of two tracks was reported as completed and the search for the
\* second has started: progress came before the end of the batch
C7_Witness ==
  /\ reported = <<<<TRUE, 1, 2>>>>
  /\ auto_download_in_progress
  /\ last_search.started

Requested(method) ==
  (IF method \in {"lrc", "both"} THEN {"lrc"} ELSE {})
    \cup (IF method \in {"metadata", "both"} THEN {"metadata"} ELSE {})

\* C10: the event a download thread queues is download-completed exactly when
\* one of the requested storage targets was written, and download-error
\* exactly when none of them was.
C10_SavedIffATargetWritten ==
  last_save.method # "" =>
    LET event == idleq[Len(idleq)].type
        written == {target \in Requested(last_save.method) :
                      last_save[target] = "written"}
    IN /\ event = "download-completed" <=> written # {}
       /\ event = "download-error" <=> written = {}

\* a download with the storage method "metadata" wrote the lyrics into the
\* file's tags and queued download-completed
C10_Witness ==
  /\ last_save = [method |-> "metadata", lrc |-> "none", metadata |-> "written"]
  /\ idleq # <<>>
  /\ idleq[Len(idleq)].type = "download-completed"

\* ---------------------------------------------------------- the RateLimiter
\* RateLimiter(max_requests, time_window), lrclib_client.py 33-35. The client
\* builds it with 10 and 60 (line 68); the instance checked here is a smaller
\* one, with whole seconds as the clock's unit.
max_requests == 2
time_window == 3
\* threads calling wait_if_needed, and the last second of the clock
NumCallers == 3
MaxClock == 7

Callers == 1 .. NumCallers

MinOf(s) == CHOOSE x \in {s[i] : i \in DOMAIN s} : \A i \in DOMAIN s : x <= s[i]

\* lines 46 and 57: the requests younger than time_window
recent(reqs, now) == SelectSeq(reqs, LAMBDA req_time : now - req_time < time_window)

limit_reached_off_by_one(reqs) == Len(reqs) > max_requests

\* line 48: the limit is reached
limit_reached(reqs) == Len(reqs) >= max_requests

wait_time_one_short(now, oldest_request) == time_window - (now - oldest_request) - 1

\* line 51
wait_time(now, oldest_request) == time_window - (now - oldest_request)

grant_keeps_lock(c, now, waited, oldest) ==
  /\ requests' = Append(recent(requests, now), now)
  /\ grants' = Append(grants, [t |-> now, waited |-> waited, oldest |-> oldest])
  /\ lock' = lock
  /\ callers' = [callers EXCEPT ![c] = [pc |-> "idle", now |-> 0, wait |-> 0]]

Grant(c, now, waited, oldest) ==
  /\ requests' = Append(recent(requests, now), now)
  /\ grants' = Append(grants, [t |-> now, waited |-> waited, oldest |-> oldest])
  /\ lock' = 0
  /\ callers' = [callers EXCEPT ![c] = [pc |-> "idle", now |-> 0, wait |-> 0]]

\* line 43: with self.lock
RLAcquire(c) ==
  /\ callers[c].pc = "idle"
  /\ lock = 0
  /\ lock' = c
  /\ callers' = [callers EXCEPT ![c].pc = "locked"]
  /\ UNCHANGED <<requests, clock, grants, restVars>>

\* lines 44-54 and 59: the request is granted at once, or the caller goes to
\* sleep holding the lock
RLCheck(c) ==
  /\ callers[c].pc = "locked"
  /\ LET now == clock
         kept == recent(requests, now)
     IN IF limit_reached(kept) /\ wait_time(now, MinOf(kept)) > 0
        THEN /\ requests' = kept
             /\ callers' = [callers EXCEPT ![c] =
                              [pc |-> "sleeping", now |-> now,
                               wait |-> wait_time(now, MinOf(kept))]]
             /\ UNCHANGED <<lock, grants>>
        ELSE Grant(c, now, FALSE, 0)
  /\ UNCHANGED <<clock, restVars>>

\* lines 54-59: time.sleep(wait_time) returns once that much time has passed
RLWake(c) ==
  /\ callers[c].pc = "sleeping"
  /\ clock >= callers[c].now + callers[c].wait
  /\ Grant(c, clock, TRUE, MinOf(requests))
  /\ UNCHANGED <<clock, restVars>>

\* time passes
Tick ==
  /\ clock < MaxClock
  /\ clock' = clock + 1
  /\ UNCHANGED <<requests, lock, callers, grants, restVars>>

InitRL ==
  /\ AppIdle
  /\ DlIdle
  /\ CliIdle
  /\ OtherIdle
  /\ requests = <<>>
  /\ lock = 0
  /\ callers = [c \in Callers |-> [pc |-> "idle", now |-> 0, wait |-> 0]]
  /\ clock = 0
  /\ grants = <<>>

NextRL ==
  \/ \E c \in Callers : RLAcquire(c) \/ RLCheck(c) \/ RLWake(c)
  \/ Tick

SpecRL == InitRL /\ [][NextRL]_vars

GrantsInWindow(i) ==
  {j \in DOMAIN grants : /\ grants[j].t > grants[i].t - time_window
                         /\ grants[j].t <= grants[i].t}

\* C8: whatever the number of calling threads, the window of time_window
\* seconds that ends at any request's grant time (open at its start, closed
\* at the grant) holds at most max_requests grants.
C8_AtMostMaxPerWindow ==
  \A i \in DOMAIN grants : Cardinality(GrantsInWindow(i)) <= max_requests

\* a grant that came after a sleep and closes a full window
C8_Witness ==
  \E i \in DOMAIN grants :
    /\ grants[i].waited
    /\ Cardinality(GrantsInWindow(i)) = max_requests
    /\ Len(grants) > max_requests

\* C9: a caller sleeps only when max_requests requests remain after eviction,
\* and then for time_window - (now - oldest); the request it is granted after
\* the sleep is stamped no earlier than time_window after that oldest request.
\* The first max_requests requests are granted without a sleep, and request
\* number max_requests + 1 is stamped at least time_window after the first.
C9_SleepUntilOldestExpires ==
  /\ \A c \in DOMAIN callers :
       callers[c].pc = "sleeping" =>
         /\ lock = c
         /\ Len(requests) >= max_requests
         /\ callers[c].wait = time_window - (callers[c].now - MinOf(requests))
  /\ \A i \in DOMAIN grants :
       /\ grants[i].waited => grants[i].t - grants[i].oldest >= time_window
       /\ i <= max_requests => ~grants[i].waited
  /\ Len(grants) > max_requests =>
       grants[max_requests + 1].t >= grants[1].t + time_window

\* request number max_requests + 1 was made inside the first window, slept,
\* and was granted exactly when the first request turned time_window old
C9_Witness ==
  /\ Len(grants) = max_requests + 1
  /\ grants[max_requests + 1].waited
  /\ grants[max_requests + 1].oldest = grants[1].t
  /\ grants[max_requests + 1].t = grants[1].t + time_window

\* ------------------------------------------- the life of a download call
\* download_lyrics_async calls one run makes
MaxDownloads == 2

download_started_never(thread) == <<>>

\* line 165: GLib.idle_add(self.emit, 'download-started', music_file_path)
download_started(thread) ==
  <<Msg("download-started", thread.track, thread.epoch, thread.seq, <<>>)>>

\* LyricsService.download_lyrics_async, lines 151-157: the thread is created
\* and started; here it starts at the top of _download_lyrics_thread
DownloadCall(track) ==
  /\ ncalls < MaxDownloads
  /\ HasFreeSlot
  /\ workers' = [workers EXCEPT ![FreeSlot(workers)] =
                   [kind |-> "download", pc |-> "begin", track |-> track,
                    epoch |-> 0, seq |-> ncalls + 1, key |-> <<>>]]
  /\ ncalls' = ncalls + 1
  /\ Quiet
  /\ UNCHANGED <<winVars, _current_searches, nsearch, scanVars, histVars, idleq,
                 lrc_files, idleVars, signals, cliVars>>

\* LyricsService._download_lyrics_thread, lines 162-165
DownloadBegin(t) ==
  /\ workers[t].kind = "download" /\ workers[t].pc = "begin"
  /\ idleq' = idleq \o download_started(workers[t])
  /\ workers' = [workers EXCEPT ![t].pc = "save"]
  /\ Quiet
  /\ UNCHANGED <<winVars, _current_searches, nsearch, scanVars, histVars,
                 lrc_files, idleVars, dlVars, cliVars>>

DownloadSignals == {"download-started", "download-completed", "download-error"}

\* the main loop runs the oldest pending self.emit of the service
EmitSignal ==
  /\ idleq # <<>>
  /\ Head(idleq).type \in DownloadSignals
  /\ signals' = Append(signals, [type |-> Head(idleq).type, call |-> Head(idleq).seq])
  /\ idleq' = Tail(idleq)
  /\ Quiet
  /\ UNCHANGED <<winVars, svcVars, scanVars, histVars, lrc_files, idleVars, ncalls,
                 cliVars>>

NextDL ==
  \/ \E track \in Tracks : DownloadCall(track)
  \/ \E t \in Slots : DownloadBegin(t) \/ DownloadSave(t)
  \/ EmitSignal

SpecDL == Init /\ [][NextDL]_vars

\* the signals emitted for one call, oldest first
SignalsOf(c) ==
  LET mine == SelectSeq(signals, LAMBDA e : e.call = c)
  IN [i \in DOMAIN mine |-> mine[i].type]

\* the thread of the call has ended and none of its events is pending
CallOver(c) ==
  /\ \A t \in Slots : workers[t].seq # c
  /\ \A i \in DOMAIN idleq : idleq[i].seq # c

\* C11: the signals of one download_lyrics_async call are download-started
\* and then one terminal signal, download-completed or download-error: never
\* a second terminal signal, and both signals once the call is over.
C11_StartedThenOneTerminal ==
  \A c \in 1 .. ncalls :
    LET s == SignalsOf(c)
    IN /\ Len(s) <= 2
       /\ Len(s) >= 1 => s[1] = "download-started"
       /\ Len(s) = 2 => s[2] \in {"download-completed", "download-error"}
       /\ CallOver(c) => Len(s) = 2

\* two calls in flight together, one ended Saved and the other Failed, their
\* signals interleaved
C11_Witness ==
  /\ ncalls = 2
  /\ CallOver(1) /\ CallOver(2)
  /\ SignalsOf(1) = <<"download-started", "download-error">>
  /\ SignalsOf(2) = <<"download-started", "download-completed">>
  /\ signals[2].type = "download-started"

\* ------------------------------------------------- the LRCLIB client: names
\* A character is a one-character string; "U+00E9" and "U+611B" stand for the
\* single characters with these code points (233 and 24859).
ord(c) ==
  CASE c = "U+611B" -> 24859
    [] c = "U+00E9" -> 233
    [] c = "a" -> 97
    [] c = "b" -> 98
    [] c = "(" -> 40
    [] c = ")" -> 41
    [] OTHER -> 32

\* the names a search is made with
Latin == <<"a">>
Latin1 == <<"U+00E9">>
LatinGroup == <<"a", "(", "b", ")">>
Han == <<"U+611B">>
HanGroup == <<"U+611B", " ", "(", "a", ")">>
HanPadded == <<"U+611B", "(", " ", "b", " ", ")">>
HanEmpty == <<"U+611B", "(", ")">>
HanTwo == <<"(", "a", ")", "U+611B", "(", "b", ")">>

Titles == {Latin, LatinGroup, Han, HanGroup, HanPadded, HanEmpty, HanTwo}
Artists == {Latin, Latin1, HanGroup}
Albums == {<<>>, Latin, HanPadded}

\* LRCLibClient._has_non_latin_chars
_has_non_latin_chars(text) == \E i \in DOMAIN text : ord(text[i]) > 255

\* LRCLibClient._has_parentheses_content: re.search(r'\(.+\)', text) finds a
\* "(" and a later ")" with at least one character between them
_has_parentheses_content(text) ==
  \E i \in DOMAIN text, j \in DOMAIN text :
    text[i] = "(" /\ text[j] = ")" /\ j >= i + 2

\* str.strip()
RECURSIVE lstrip(_)
lstrip(s) == IF s # <<>> /\ Head(s) = " " THEN lstrip(Tail(s)) ELSE s
RECURSIVE rstrip(_)
rstrip(s) ==
  IF s # <<>> /\ s[Len(s)] = " " THEN rstrip(SubSeq(s, 1, Len(s) - 1)) ELSE s
strip(s) == rstrip(lstrip(s))

Least(S) == CHOOSE x \in S : \A y \in S : x <= y

\* re.search(r'\((.*?)\)', name): the leftmost "(" that a ")" follows, and the
\* nearest ")" after it
first_group(name) ==
  LET opens == {i \in DOMAIN name :
                  name[i] = "(" /\ \E j \in DOMAIN name : j > i /\ name[j] = ")"}
      i == Least(opens)
      j == Least({k \in DOMAIN name : k > i /\ name[k] = ")"})
  IN [found |-> opens # {},
      text |-> IF opens = {} THEN <<>> ELSE SubSeq(name, i + 1, j - 1)]

_extract_latin_name_untrimmed(name) ==
  IF first_group(name).found THEN first_group(name).text ELSE name

\* LRCLibClient._extract_latin_name
_extract_latin_name(name) ==
  IF first_group(name).found THEN strip(first_group(name).text) ELSE name

\* ------------------------------------------------- LyricsResult: the score
\* A similarity is a multiple of 1/840 and a score a multiple of 1/16800, so
\* that every weight of the score and every quotient of two set sizes up to 8
\* is a whole number of units.
SimilarityOne == 840
ScoreOne == 20 * SimilarityOne

\* the characters of the model that are neither \w nor \s; "_" is \w
Punctuation == {"(", ")", "-", "!"}
is_space(c) == c = " "
is_word(c) == c \notin Punctuation /\ ~is_space(c)

\* re.sub(r'[^\w\s]', '', s)
remove_punctuation(s) == SelectSeq(s, LAMBDA c : is_word(c) \/ is_space(c))

\* a in b, for strings
is_in(a, b) == \E i \in 0 .. Len(b) - Len(a) : SubSeq(b, i + 1, i + Len(a)) = a

\* set(s.split()): the maximal runs of characters that are not white space
split(s) ==
  {SubSeq(s, p[1], p[2]) :
     p \in {q \in (DOMAIN s) \X (DOMAIN s) :
              /\ q[1] <= q[2]
              /\ \A k \in q[1] .. q[2] : ~is_space(s[k])
              /\ q[1] = 1 \/ is_space(s[q[1] - 1])
              /\ q[2] = Len(s) \/ is_space(s[q[2] + 1])}}

exact_match_never(str1, str2) == FALSE

\* line 108: str1 == str2
exact_match(str1, str2) == str1 = str2

contains_first_in_second(str1, str2) == is_in(str1, str2)

\* line 112: str1 in str2 or str2 in str1
contains(str1, str2) == is_in(str1, str2) \/ is_in(str2, str1)

\* lines 116-125
word_matching(str1, str2) ==
  LET words1 == split(str1)
      words2 == split(str2)
  IN IF words1 = {} \/ words2 = {} THEN 0
     ELSE (Cardinality(words1 \cap words2) * SimilarityOne)
            \div Cardinality(words1 \cup words2)

\* LyricsResult._calculate_string_similarity
_calculate_string_similarity(str1, str2) ==
  IF str1 = <<>> \/ str2 = <<>> THEN 0
  ELSE LET s1 == strip(remove_punctuation(str1))
           s2 == strip(remove_punctuation(str2))
       IN IF exact_match(s1, s2) THEN SimilarityOne
          ELSE IF contains(s1, s2) THEN (8 * SimilarityOne) \div 10
          ELSE word_matching(s1, s2)

\* similarity times a weight given in hundredths, as a score
weighted(similarity, hundredths) ==
  (similarity * hundredths * ScoreOne) \div (100 * SimilarityOne)
hundredths_of_one(hundredths) == (hundredths * ScoreOne) \div 100

abs(x) == IF x < 0 THEN 0 - x ELSE x

album_score_doubled(album, target_album) == hundredths_of_one(20)

\* lines 78-83
album_score(album, target_album) ==
  IF target_album # <<>>
  THEN weighted(_calculate_string_similarity(lower(album), lower(target_album)), 10)
  ELSE hundredths_of_one(10)

duration_score_strictly_within(duration, target_duration) ==
  IF target_duration > 0 /\ duration > 0
  THEN LET duration_diff == abs(duration - target_duration)
       IN IF duration_diff < 5 THEN hundredths_of_one(10)
          ELSE IF duration_diff < 30 THEN hundredths_of_one(5)
          ELSE 0
  ELSE hundredths_of_one(5)

\* lines 85-94
duration_score(duration, target_duration) ==
  IF target_duration > 0 /\ duration > 0
  THEN LET duration_diff == abs(duration - target_duration)
       IN IF duration_diff <= 5 THEN hundredths_of_one(10)
          ELSE IF duration_diff <= 30 THEN hundredths_of_one(5)
          ELSE 0
  ELSE hundredths_of_one(5)

\* LyricsResult.calculate_accuracy_score: the value it returns and stores
calculate_accuracy_score(self, target_title, target_artist, target_album, target_duration) ==
  weighted(_calculate_string_similarity(lower(self.title), lower(target_title)), 40)
  + weighted(_calculate_string_similarity(lower(self.artist), lower(target_artist)), 40)
  + album_score(self.album, target_album)
  + duration_score(self.duration, target_duration)

\* --------------------------------------------- the LRCLIB client: responses
\* JSON null, and Python's None
None == <<"None">>

\* items of a response; the search asks for a duration of SearchDuration
D1 == [id |-> 1, trackName |-> <<"x">>, artistName |-> <<"a">>,
       albumName |-> <<"a", "b">>, duration |-> 110,
       plainLyrics |-> <<"l">>, syncedLyrics |-> <<>>]
D2 == [id |-> 2, trackName |-> <<"X", " ">>, artistName |-> <<"A">>,
       albumName |-> <<"a", "b">>, duration |-> 200,
       plainLyrics |-> <<>>, syncedLyrics |-> <<"l">>]
D3 == [id |-> 3, trackName |-> <<"X", " ">>, artistName |-> <<"a">>,
       albumName |-> <<"a", "b">>, duration |-> 100,
       plainLyrics |-> None, syncedLyrics |-> <<"l", " ">>]
D4 == [id |-> 4, trackName |-> <<"b">>, artistName |-> <<"a">>,
       albumName |-> <<>>, duration |-> 110,
       plainLyrics |-> <<"l">>, syncedLyrics |-> None]
\* lyrics of white space only, and no lyrics at all
D5 == [id |-> 5, trackName |-> <<"x">>, artistName |-> <<"a">>,
       albumName |-> <<>>, duration |-> 100,
       plainLyrics |-> <<" ">>, syncedLyrics |-> <<>>]
D6 == [id |-> 6, trackName |-> <<"x">>, artistName |-> <<"a">>,
       albumName |-> <<>>, duration |-> 100,
       plainLyrics |-> None, syncedLyrics |-> None]
\* "trackName": null
D7 == [id |-> 7, trackName |-> None, artistName |-> <<"a">>,
       albumName |-> <<>>, duration |-> 0,
       plainLyrics |-> <<"l">>, syncedLyrics |-> <<>>]
Items == {D1, D2, D3, D4, D5, D6, D7}

\* items in one response
MaxItems == 2
DataLists ==
  {d \in UNION {[1 .. n -> Items] : n \in 0 .. MaxItems} :
     \A i \in DOMAIN d, j \in DOMAIN d : i # j => d[i] # d[j]}

\* what urlopen and json.loads can do: an answer with status 200 and a JSON
\* list, an answer with another status, or an exception
Failures == {"HTTPError", "URLError", "TimeoutError", "JSONDecodeError"}
Responses ==
  {[kind |-> "200", data |-> d, code |-> 200] : d \in DataLists}
    \cup {[kind |-> "status", data |-> <<>>, code |-> 204]}
    \cup {[kind |-> f, data |-> <<>>, code |-> IF f = "HTTPError" THEN 404 ELSE 0] :
            f \in Failures}

NoResponse == [kind |-> "", data |-> <<>>, code |-> 0]

\* the exception classes, each with its base class
Base(cls) ==
  CASE cls = "HTTPError" -> "URLError"
    [] cls = "URLError" -> "OSError"
    [] cls = "TimeoutError" -> "OSError"
    [] cls = "JSONDecodeError" -> "ValueError"
    [] OTHER -> "Exception"

RECURSIVE Ancestors(_)
Ancestors(cls) ==
  IF cls = "Exception" THEN {cls} ELSE {cls} \cup Ancestors(Base(cls))

\* an except clause of the list catches the exception
caught(cls, excepts) == Ancestors(cls) \cap excepts # {}

search_lyrics_excepts_named_only == {"HTTPError", "URLError", "JSONDecodeError"}

\* the except clauses of search_lyrics, lines 173-184
search_lyrics_excepts == {"HTTPError", "URLError", "JSONDecodeError", "Exception"}

\* the except clauses of get_lyrics_by_id, lines 215-223
get_lyrics_by_id_excepts == {"HTTPError", "Exception"}

\* ----------------------------------------------- the LRCLIB client: parsing
has_lyrics_unstripped(plain_lyrics, synced_lyrics) ==
  plain_lyrics # <<>> \/ synced_lyrics # <<>>

\* LyricsResult.has_lyrics, with has_synced_lyrics
has_lyrics(plain_lyrics, synced_lyrics) ==
  \/ plain_lyrics # <<>> /\ strip(plain_lyrics) # <<>>
  \/ synced_lyrics # <<>> /\ strip(synced_lyrics) # <<>>

\* x or ''
or_empty(x) == IF x = None THEN <<>> ELSE x

\* LRCLibClient._parse_single_result: the list holds the LyricsResult, and is
\* empty when the method returns None
_parse_single_result(data) ==
  LET result == [id |-> data.id, title |-> data.trackName,
                 artist |-> data.artistName,
                 album |-> data.albumName,
                 duration |-> data.duration,
                 plain_lyrics |-> or_empty(data.plainLyrics),
                 synced_lyrics |-> or_empty(data.syncedLyrics),
                 accuracy_score |-> 0]
  IN IF has_lyrics(result.plain_lyrics, result.synced_lyrics)
     THEN <<result>> ELSE <<>>

\* LyricsResult.calculate_accuracy_score raises AttributeError at line 71, 75
\* or 80 when the title, the artist or, with a target album, the album is None
score_raises(result, target) ==
  \/ result.title = None
  \/ result.artist = None
  \/ target.album # <<>> /\ result.album = None

\* the list as list.sort(key=accuracy_score, reverse=True) leaves it: highest
\* first, equal scores in their earlier order
RECURSIVE sort_stable(_)
sort_stable(results) ==
  IF results = <<>> THEN <<>>
  ELSE LET last == results[Len(results)]
           front == sort_stable(SubSeq(results, 1, Len(results) - 1))
           before == SelectSeq(front, LAMBDA r : r.accuracy_score >= last.accuracy_score)
           after == SelectSeq(front, LAMBDA r : r.accuracy_score < last.accuracy_score)
       IN before \o <<last>> \o after

sort_by_accuracy_score_skipped(results) == results

\* results.sort(key=lambda x: x.accuracy_score, reverse=True)
sort_by_accuracy_score(results) == sort_stable(results)

\* the loop of _parse_search_results, lines 230-235; target holds
\* target_title, target_artist, target_album and target_duration
RECURSIVE parse_items(_, _)
parse_items(data, target) ==
  IF data = <<>> THEN [raised |-> FALSE, results |-> <<>>]
  ELSE LET parsed == _parse_single_result(Head(data))
           rest == parse_items(Tail(data), target)
       IN IF parsed # <<>> /\ score_raises(parsed[1], target)
          THEN [raised |-> TRUE, results |-> <<>>]
          ELSE IF rest.raised THEN rest
          ELSE [raised |-> FALSE,
                results |-> (IF parsed = <<>> THEN <<>>
                             ELSE <<[parsed[1] EXCEPT !.accuracy_score =
                                       calculate_accuracy_score(parsed[1],
                                         target.title, target.artist,
                                         target.album, target.duration)]>>)
                            \o rest.results]

\* LRCLibClient._parse_search_results
_parse_search_results(data, target) ==
  LET parsed == parse_items(data, target)
  IN IF parsed.raised THEN parsed
     ELSE [raised |-> FALSE, results |-> sort_by_accuracy_score(parsed.results)]

_remove_duplicates_keeping_last(results) ==
  LET key(r) == <<strip(lower(r.title)), strip(lower(r.artist))>>
      kept == SelectSeq([i \in DOMAIN results |-> [r |-> results[i], i |-> i]],
                        LAMBDA e : \A j \in DOMAIN results :
                                     j > e.i => key(results[j]) # key(e.r))
  IN [k \in DOMAIN kept |-> kept[k].r]

\* LyricsService._remove_duplicates
RECURSIVE _remove_duplicates(_)
_remove_duplicates(results) ==
  IF results = <<>> THEN <<>>
  ELSE LET key(r) == <<strip(lower(r.title)), strip(lower(r.artist))>>
           front == SubSeq(results, 1, Len(results) - 1)
           last == results[Len(results)]
           unique_results == _remove_duplicates(front)
       IN IF \E i \in DOMAIN front : key(front[i]) = key(last)
          THEN unique_results
          ELSE Append(unique_results, last)

\* ------------------------------------------------ the LRCLIB client: a call
first_step_retry_unlimited(try_latin) == IF try_latin THEN "wait" ELSE "urlopen"

\* where an invocation starts: line 122, self.rate_limiter.wait_if_needed()
first_step(try_latin) == "wait"

retry_try_latin_again == TRUE

\* line 165: the retry is made with try_latin=False
retry_try_latin == FALSE

\* the duration every search of the model asks for
SearchDuration == 100

Frame(fn, title, artist, album, try_latin) ==
  [fn |-> fn, title |-> title, artist |-> artist, album |-> album,
   duration |-> SearchDuration,
   try_latin |-> try_latin, pc |-> first_step(try_latin)]

\* the arguments of an invocation that the score is computed against
target_of(f) ==
  [title |-> f.title, artist |-> f.artist, album |-> f.album,
   duration |-> f.duration]

\* lines 150-156
should_try_latin(title, artist, album) ==
  \/ _has_non_latin_chars(title) /\ _has_parentheses_content(title)
  \/ _has_non_latin_chars(artist) /\ _has_parentheses_content(artist)

\* lines 159-165: the invocation the retry makes
latin_retry(f) ==
  LET latin_title == IF _has_non_latin_chars(f.title) /\ _has_parentheses_content(f.title)
                     THEN _extract_latin_name(f.title) ELSE f.title
      latin_artist == IF _has_non_latin_chars(f.artist) /\ _has_parentheses_content(f.artist)
                      THEN _extract_latin_name(f.artist) ELSE f.artist
      latin_album == IF /\ f.album # <<>>
                        /\ _has_non_latin_chars(f.album)
                        /\ _has_parentheses_content(f.album)
                     THEN _extract_latin_name(f.album) ELSE f.album
  IN Frame("search_lyrics", latin_title, latin_artist, latin_album, retry_try_latin)

\* LRCLibClient.search_lyrics from the answer of urlopen on, lines 142-184:
\* the invocation returns a list, raises, or makes the retry
search_lyrics_after(f, response) ==
  LET parsed == _parse_search_results(response.data, target_of(f))
      exception == IF response.kind \in Failures THEN response.kind
                   ELSE IF response.kind = "200" /\ parsed.raised THEN "AttributeError"
                   ELSE "none"
      give(results) == [does |-> "return", results |-> results, retry |-> f]
  IN IF exception # "none"
     THEN IF caught(exception, search_lyrics_excepts) THEN give(<<>>)
          ELSE [does |-> "raise", results |-> <<>>, retry |-> f]
     ELSE IF response.kind # "200" THEN give(<<>>)
     ELSE IF /\ parsed.results = <<>>
             /\ f.try_latin
             /\ should_try_latin(f.title, f.artist, f.album)
          THEN [does |-> "retry", results |-> <<>>, retry |-> latin_retry(f)]
          ELSE give(parsed.results)

\* LRCLibClient.get_lyrics_by_id from the answer of urlopen on, lines 204-223;
\* the value is the list of the one result, empty for None
get_lyrics_by_id_after(response) ==
  LET exception == IF response.kind \in Failures THEN response.kind ELSE "none"
  IN IF exception # "none"
     THEN [does |-> IF caught(exception, get_lyrics_by_id_excepts)
                    THEN "return" ELSE "raise",
           results |-> <<>>]
     ELSE IF response.kind # "200" \/ response.data = <<>>
          THEN [does |-> "return", results |-> <<>>]
          ELSE [does |-> "return", results |-> _parse_single_result(response.data[1])]

NoCall == frames = <<>> /\ net_log = <<>> /\ returned = NotReturned

\* _search_lyrics_thread, line 98: self.lrclib_client.search_lyrics(...)
CallSearch(title, artist, album) ==
  /\ NoCall
  /\ frames' = <<Frame("search_lyrics", title, artist, album, TRUE)>>
  /\ UNCHANGED <<net_log, returned, pipeline, appVars, idleVars, dlVars>>

\* a call of get_lyrics_by_id
CallGet ==
  /\ NoCall
  /\ frames' = <<[Frame("get_lyrics_by_id", <<>>, <<>>, <<>>, FALSE)
                    EXCEPT !.pc = "wait"]>>
  /\ UNCHANGED <<net_log, returned, pipeline, appVars, idleVars, dlVars>>

\* lines 122 and 198: wait_if_needed returns
WaitIfNeeded ==
  /\ frames # <<>>
  /\ frames[Len(frames)].pc = "wait"
  /\ frames' = [frames EXCEPT ![Len(frames)].pc = "urlopen"]
  /\ net_log' = Append(net_log, [op |-> "wait_if_needed", depth |-> Len(frames),
                                 call |-> target_of(frames[Len(frames)]),
                                 answer |-> "", response |-> NoResponse])
  /\ UNCHANGED <<returned, pipeline, appVars, idleVars, dlVars>>

Answer(out) ==
  IF out.does = "raise" THEN "raised"
  ELSE IF out.does = "retry" THEN "empty"
  ELSE IF out.results = <<>> THEN "nothing" ELSE "results"

\* lines 142-184 and 204-223: the request and what the invocation does with
\* the answer. A value returned by the retry is returned by the first
\* invocation as it is (line 165).
Urlopen(response) ==
  /\ frames # <<>>
  /\ frames[Len(frames)].pc = "urlopen"
  /\ LET f == frames[Len(frames)]
         out == IF f.fn = "search_lyrics" THEN search_lyrics_after(f, response)
                ELSE [does |-> get_lyrics_by_id_after(response).does,
                      results |-> get_lyrics_by_id_after(response).results,
                      retry |-> f]
         first_empty == /\ f.fn = "search_lyrics"
                        /\ response.kind = "200"
                        /\ ~_parse_search_results(response.data, target_of(f)).raised
                        /\ _parse_search_results(response.data, target_of(f)).results = <<>>
     IN /\ net_log' = Append(net_log,
                        [op |-> "urlopen", depth |-> Len(frames),
                         call |-> target_of(f),
                         answer |-> IF first_empty THEN "empty" ELSE Answer(out),
                         response |-> response])
        /\ IF out.does = "retry"
           THEN frames' = Append(frames, out.retry) /\ returned' = returned
           ELSE /\ frames' = <<>>
                /\ returned' = [by |-> f.fn, raised |-> out.does = "raise",
                                value |-> out.results]
  /\ UNCHANGED <<pipeline, appVars, idleVars, dlVars>>

best_result_last(results) == results[Len(results)]

\* window.py line 230: best_result = results[0]
best_result(results) == results[1]

\* _search_lyrics_thread, lines 99-114: the results of the client are
\* deduplicated, sorted and queued for the main loop; an exception queues
\* 'search-error'
SearchThreadEmits ==
  /\ returned.by = "search_lyrics"
  /\ pipeline.stage = "none"
  /\ pipeline' = IF returned.raised
                 THEN [pipeline EXCEPT !.stage = "search-error"]
                 ELSE [pipeline EXCEPT
                         !.stage = "search-completed",
                         !.unique_results =
                            sort_by_accuracy_score(_remove_duplicates(returned.value))]
  /\ UNCHANGED <<frames, net_log, returned, appVars, idleVars, dlVars>>

\* _emit_search_completed and ComposerWindow._handle_auto_download_search_results,
\* lines 228-233: the candidate handed to download_lyrics_async
HandleSearchResults ==
  /\ pipeline.stage = "search-completed"
  /\ pipeline' = [pipeline EXCEPT
                    !.stage = "handled",
                    !.download = IF pipeline.unique_results # <<>>
                                 THEN <<best_result(pipeline.unique_results)>>
                                 ELSE <<>>]
  /\ UNCHANGED <<frames, net_log, returned, appVars, idleVars, dlVars>>

NextCli ==
  \/ \E title \in Titles, artist \in Artists, album \in Albums :
       CallSearch(title, artist, album)
  \/ CallGet
  \/ WaitIfNeeded
  \/ \E response \in Responses : Urlopen(response)
  \/ SearchThreadEmits
  \/ HandleSearchResults

SpecCli == Init /\ [][NextCli]_vars

\* ------------------------------------------------ properties of the client
Requests == {i \in DOMAIN net_log : net_log[i].op = "urlopen"}

\* C12: one search_lyrics call makes at most one retry, and that with
\* try_latin false: never more than two invocations and two requests, and
\* once no invocation is left the call has returned a list.
C12_AtMostOneRetry ==
  /\ Len(frames) <= 2
  /\ Cardinality(Requests) <= 2
  /\ Len(frames) = 2 => frames[1].try_latin /\ ~frames[2].try_latin
  /\ (frames = <<>> /\ net_log # <<>>) => returned.by # "none" /\ ~returned.raised

\* the first attempt and the retry both came back empty, and the call returned
C12_Witness ==
  /\ returned.by = "search_lyrics"
  /\ Len(net_log) = 4
  /\ net_log[2].answer = "empty"
  /\ net_log[4].answer = "empty"
  /\ returned.value = <<>>

\* the name has a character outside Latin-1 and a parenthesized group
Qualifies(text) ==
  /\ \E i \in DOMAIN text : ord(text[i]) > 255
  /\ \E i \in DOMAIN text, j \in DOMAIN text :
       i < j /\ text[i] = "(" /\ text[j] = ")" /\ j - i > 1

\* this step is the first invocation of search_lyrics getting its answer
FirstAnswer ==
  /\ Len(frames) = 1
  /\ frames[1].fn = "search_lyrics"
  /\ frames[1].pc = "urlopen"
  /\ net_log' # net_log

\* C13: the first invocation makes the retry exactly when its result list is
\* empty, try_latin is true, and the title, the artist or the album qualifies.
C13_RetryExactlyWhenQualified ==
  [][FirstAnswer =>
       (Len(frames') = 2 <=>
          /\ net_log'[Len(net_log')].answer = "empty"
          /\ frames[1].try_latin
          /\ \/ Qualifies(frames[1].title)
             \/ Qualifies(frames[1].artist)
             \/ Qualifies(frames[1].album))]_vars

\* r is s without the spaces at its two ends
IsTrimOf(r, s) ==
  /\ r # <<>> => r[1] # " " /\ r[Len(r)] # " "
  /\ \E m \in 0 .. Len(s), n \in 0 .. Len(s) :
       /\ m + Len(r) + n = Len(s)
       /\ \A k \in 1 .. Len(s) :
            s[k] = IF k <= m \/ k > m + Len(r) THEN " " ELSE r[k - m]

\* r is the trimmed content of the first parenthesized group of s: from the
\* first "(" to the nearest ")" after it
IsFirstGroupOf(r, s) ==
  \E i \in DOMAIN s, j \in DOMAIN s :
    /\ i < j /\ s[i] = "(" /\ s[j] = ")"
    /\ \A k \in 1 .. i - 1 : s[k] # "("
    /\ \A k \in i + 1 .. j - 1 : s[k] # ")"
    /\ IsTrimOf(r, SubSeq(s, i + 1, j - 1))

Substituted(old, new) ==
  IF Qualifies(old) THEN IsFirstGroupOf(new, old) ELSE new = old

\* C14: the retry is made with every qualifying field replaced by the trimmed
\* content of its first parenthesized group and every other field unchanged.
C14_QualifyingFieldsSubstituted ==
  Len(frames) = 2 =>
    /\ Substituted(frames[1].title, frames[2].title)
    /\ Substituted(frames[1].artist, frames[2].artist)
    /\ Substituted(frames[1].album, frames[2].album)

\* title and album are replaced by the group's content without its spaces,
\* the Latin-1 artist is passed as it is
C14_Witness ==
  /\ Len(frames) = 2
  /\ frames[1].title = HanPadded /\ frames[2].title = <<"b">>
  /\ frames[1].artist = Latin1 /\ frames[2].artist = Latin1
  /\ frames[1].album = HanPadded /\ frames[2].album = <<"b">>

DedupKey(r) == <<strip(lower(r.title)), strip(lower(r.artist))>>

Emitted == pipeline.stage \in {"search-completed", "handled"}

\* C15: of the candidates the client returned, the deduplicated list holds
\* exactly one per (title, artist) pair lower-cased and trimmed: the first of
\* the pair in the client's list, and none of the pair that was dropped has a
\* higher score.
C15_FirstOfEachPairSurvives ==
  Emitted =>
    \A i \in DOMAIN returned.value :
      LET k == DedupKey(returned.value[i])
          kept == {u \in DOMAIN pipeline.unique_results :
                     DedupKey(pipeline.unique_results[u]) = k}
          first == Least({j \in DOMAIN returned.value :
                            DedupKey(returned.value[j]) = k})
      IN /\ Cardinality(kept) = 1
         /\ \A u \in kept :
              /\ pipeline.unique_results[u] = returned.value[first]
              /\ returned.value[i].accuracy_score
                   <= pipeline.unique_results[u].accuracy_score

\* two candidates of one pair with different scores: one is left
C15_Witness ==
  /\ Emitted
  /\ Len(returned.value) = 2
  /\ DedupKey(returned.value[1]) = DedupKey(returned.value[2])
  /\ returned.value[1].accuracy_score > returned.value[2].accuracy_score
  /\ pipeline.unique_results = <<returned.value[1]>>

Descending(results) ==
  \A i \in DOMAIN results, j \in DOMAIN results :
    i < j => results[i].accuracy_score >= results[j].accuracy_score

\* C16: the list search_lyrics returns and the list queued with
\* search-completed are ordered by accuracy score, highest first.
C16_HighestScoreFirst ==
  /\ Descending(returned.value)
  /\ Descending(pipeline.unique_results)

\* the response listed the lower score first; the lists have the higher first
C16_Witness ==
  /\ Emitted
  /\ net_log[Len(net_log)].response.data = <<D4, D3>>
  /\ Len(pipeline.unique_results) = 2
  /\ pipeline.unique_results[1].id = 3
  /\ pipeline.unique_results[2].id = 4

\* C17: search_lyrics and get_lyrics_by_id never raise, and when the request
\* did not end with status 200 they return the empty list, respectively None.
C17_FailuresBecomeEmpty ==
  returned.by # "none" =>
    /\ ~returned.raised
    /\ net_log[Len(net_log)].response.kind # "200" => returned.value = <<>>

\* the response had a null trackName, which makes the scoring raise; the
\* search returned the empty list
C17_Witness ==
  /\ returned = [by |-> "search_lyrics", raised |-> FALSE, value |-> <<>>]
  /\ net_log[Len(net_log)].response.data = <<D1, D7>>

\* C18: every request is preceded by a wait_if_needed of its own, made by the
\* same invocation.
C18_PermitBeforeEveryRequest ==
  \A i \in Requests :
    /\ i > 1
    /\ net_log[i - 1].op = "wait_if_needed"
    /\ net_log[i - 1].depth = net_log[i].depth

\* the first attempt and the retry each waited and then made their request
C18_Witness ==
  /\ Len(net_log) = 4
  /\ net_log[3].op = "wait_if_needed"
  /\ net_log[3].depth = 2
  /\ net_log[4].op = "urlopen"

HasText(lyrics) == \E i \in DOMAIN lyrics : lyrics[i] # " "
Valid(r) == HasText(r.plain_lyrics) \/ HasText(r.synced_lyrics)

\* C19: every candidate the client returns, and every candidate of the list
\* queued with search-completed, has plain or synced lyrics that are not
\* empty after trimming.
C19_OnlyCandidatesWithLyrics ==
  /\ \A i \in DOMAIN returned.value : Valid(returned.value[i])
  /\ \A i \in DOMAIN pipeline.unique_results : Valid(pipeline.unique_results[i])

\* of an item with lyrics and an item with blank lyrics only the first is
\* returned
C19_Witness ==
  /\ returned.by = "search_lyrics"
  /\ net_log[Len(net_log)].response.data = <<D5, D4>>
  /\ Len(returned.value) = 1
  /\ returned.value[1].id = 4

\* C20: the candidate the window hands to download_lyrics_async has the
\* highest accuracy score of the list it was given.
C20_TopRankedIsDownloaded ==
  pipeline.stage = "handled" /\ pipeline.unique_results # <<>> =>
    /\ Len(pipeline.download) = 1
    /\ \A i \in DOMAIN pipeline.unique_results :
         pipeline.unique_results[i].accuracy_score
           <= pipeline.download[1].accuracy_score

\* two candidates with different scores were found; the higher one is taken
C20_Witness ==
  /\ pipeline.stage = "handled"
  /\ Len(pipeline.unique_results) = 2
  /\ pipeline.unique_results[2].accuracy_score < pipeline.download[1].accuracy_score

\* C30: every candidate search_lyrics returns has the score that
\* calculate_accuracy_score gives it for the title, artist, album and duration
\* the caller passed, also when it was found by the retry.
C30_ScoredAgainstOriginalTarget ==
  returned.by = "search_lyrics" =>
    \A i \in DOMAIN returned.value :
      returned.value[i].accuracy_score =
        calculate_accuracy_score(returned.value[i],
          net_log[1].call.title, net_log[1].call.artist,
          net_log[1].call.album, net_log[1].call.duration)

\* --------------------------------------------- the similarity of two strings
MaxLen == 3
SimAlphabet == {"a", "b", "A", " ", "-", "_"}
HelloWorld == <<"H", "e", "l", "l", "o", " ", "W", "o", "r", "l", "d">>
hello_world == <<"h", "e", "l", "l", "o", " ", "w", "o", "r", "l", "d">>
LetItBe == <<"L", "e", "t", " ", "I", "t", " ", "B", "e">>
LetItBeRemastered ==
  LetItBe \o <<" ", "(", "R", "e", "m", "a", "s", "t", "e", "r", "e", "d", ")">>
SimStrings ==
  UNION {[1 .. n -> SimAlphabet] : n \in 0 .. MaxLen}
    \cup {HelloWorld, hello_world, LetItBe, LetItBeRemastered}

\* calculate_accuracy_score, lines 71, 75 and 80: the similarity of two names
\* is _calculate_string_similarity of their lower-cased forms
SimilarityCall ==
  /\ sim_call.ret = <<>>
  /\ sim_call' = [sim_call EXCEPT !.ret =
       <<_calculate_string_similarity(lower(sim_call.str1), lower(sim_call.str2))>>]
  /\ UNCHANGED <<appVars, rlVars, dlVars, cliVars, score_call, evVars, extVars>>

InitSim ==
  /\ AppIdle /\ RLIdle /\ DlIdle /\ CliIdle /\ ExtIdle
  /\ score_call = NoScoreCall
  /\ ran = <<>>
  /\ sim_call \in {[str1 |-> a, str2 |-> b, ret |-> <<>>] :
                     a \in SimStrings, b \in SimStrings}

NextSim == SimilarityCall

SpecSim == InitSim /\ [][NextSim]_vars

\* C24: the similarity of (A, B) is the similarity of (B, A).
C24_Symmetric ==
  sim_call.ret # <<>> =>
    sim_call.ret[1] =
      _calculate_string_similarity(lower(sim_call.str2), lower(sim_call.str1))

\* the first string is contained in the second and not the second in the first
C24_Witness ==
  /\ sim_call.str1 = <<"a">>
  /\ sim_call.str2 = <<"b", " ", "a">>
  /\ sim_call.ret = <<(8 * SimilarityOne) \div 10>>

\* the characters of s that Keep accepts, in their order
Kept(s, Keep(_)) == SelectSeq(s, Keep)
\* s without the white space at its ends
Trimmed(s) ==
  CHOOSE r \in {SubSeq(s, i, j) : i \in 1 .. Len(s) + 1, j \in 0 .. Len(s)} :
    IsTrimOf(r, s)
\* a occurs in b as a run of consecutive characters
Occurs(a, b) ==
  \E i \in 1 .. Len(b) + 1, j \in 0 .. Len(b) : j >= i - 1 /\ SubSeq(b, i, j) = a
\* the white-space-delimited words of s
Words(s) ==
  {w \in {SubSeq(s, i, j) : i \in DOMAIN s, j \in DOMAIN s} :
     /\ w # <<>>
     /\ \A k \in DOMAIN w : w[k] # " "
     /\ \E i \in 1 .. Len(s) - Len(w) + 1 :
          /\ SubSeq(s, i, i + Len(w) - 1) = w
          /\ i = 1 \/ s[i - 1] = " "
          /\ i + Len(w) - 1 = Len(s) \/ s[i + Len(w)] = " "}
\* the three rules in their order, on two normalized strings
RulesInOrder(n1, n2) ==
  IF n1 = n2 THEN SimilarityOne
  ELSE IF Occurs(n1, n2) \/ Occurs(n2, n1) THEN (8 * SimilarityOne) \div 10
  ELSE IF Words(n1) = {} \/ Words(n2) = {} THEN 0
  ELSE (Cardinality(Words(n1) \cap Words(n2)) * SimilarityOne)
         \div Cardinality(Words(n1) \cup Words(n2))

Alphanumeric(c) == c \notin Punctuation \cup {" ", "_"}
AlnumOrSpace(c) == Alphanumeric(c) \/ c = " "
WordOrSpace(c) == Alphanumeric(c) \/ c = "_" \/ c = " "

\* C25 as stated: after lower-casing, stripping every character that is not
\* alphanumeric or white space, and trimming, identical strings give 1.0,
\* otherwise containment gives 0.8, otherwise the Jaccard index of the word
\* sets.
C25_RulesOnAlphanumerics ==
  sim_call.ret # <<>> =>
    sim_call.ret[1] =
      RulesInOrder(Trimmed(Kept(lower(sim_call.str1), AlnumOrSpace)),
                   Trimmed(Kept(lower(sim_call.str2), AlnumOrSpace)))

\* C25 amended: when one of the two strings is empty the similarity is 0.0;
\* otherwise, after lower-casing, stripping every character that is not
\* alphanumeric, underscore or white space, and trimming, identical strings
\* give 1.0, otherwise containment gives 0.8, otherwise the Jaccard index of
\* the word sets. The two examples of the claim give 1.0 and 0.8.
C25_RulesInOrderAmended ==
  sim_call.ret # <<>> =>
    /\ sim_call.ret[1] =
         IF sim_call.str1 = <<>> \/ sim_call.str2 = <<>> THEN 0
         ELSE RulesInOrder(Trimmed(Kept(lower(sim_call.str1), WordOrSpace)),
                           Trimmed(Kept(lower(sim_call.str2), WordOrSpace)))
    /\ sim_call.str1 = HelloWorld /\ sim_call.str2 = hello_world
         => sim_call.ret[1] = SimilarityOne
    /\ sim_call.str1 = LetItBe /\ sim_call.str2 = LetItBeRemastered
         => sim_call.ret[1] = (8 * SimilarityOne) \div 10

\* "Let It Be" against "Let It Be (Remastered)" gives 0.8
C25_Witness ==
  /\ sim_call.str1 = LetItBe
  /\ sim_call.str2 = LetItBeRemastered
  /\ sim_call.ret = <<(8 * SimilarityOne) \div 10>>

\* ------------------------------------------------- the score of a candidate
MaxScoreCalls == 2
\* a target comes from the scanner, which gives every track a title and an
\* artist (music_scanner.py 101-102); a candidate's may be empty
TargetTitles == {<<"a">>, <<"A">>, <<"a", " ", "b">>}
TargetArtists == {<<"a">>, <<"b">>}
ScoreAlbums == {<<>>, <<"a">>, <<"a", " ", "b">>}
CandidateDurations == {0, 100, 200}
TargetDurations == {0, 69, 70, 94, 95, 100, 103, 105, 106, 130, 131}
ScoreCandidates ==
  [title : TargetTitles \cup {<<>>}, artist : TargetArtists, album : ScoreAlbums,
   duration : CandidateDurations, accuracy_score : {0}]
ScoreTargets ==
  [title : TargetTitles, artist : TargetArtists, album : ScoreAlbums,
   duration : TargetDurations]

\* result.calculate_accuracy_score(target_title, target_artist, target_album,
\* target_duration): lines 96-97 store the score and return it
ScoreCall ==
  /\ Len(score_call.returns) < MaxScoreCalls
  /\ LET score == calculate_accuracy_score(score_call.self,
                    score_call.target.title, score_call.target.artist,
                    score_call.target.album, score_call.target.duration)
     IN score_call' = [score_call EXCEPT !.self.accuracy_score = score,
                                         !.returns = Append(@, score)]
  /\ UNCHANGED <<appVars, rlVars, dlVars, cliVars, sim_call, evVars, extVars>>

InitScore ==
  /\ AppIdle /\ RLIdle /\ DlIdle /\ CliIdle /\ ExtIdle
  /\ sim_call = NoSimCall
  /\ ran = <<>>
  /\ score_call \in {[self |-> c, target |-> g, returns |-> <<>>] :
                       c \in ScoreCandidates, g \in ScoreTargets}

NextScore == ScoreCall

SpecScore == InitScore /\ [][NextScore]_vars

\* C22: every value calculate_accuracy_score returns lies between 0 and 1,
\* and a second call on the same candidate with the same target returns the
\* value of the first, also though the first call has stored its score in the
\* candidate.
C22_ScoreInUnitInterval ==
  \A i \in DOMAIN score_call.returns :
    /\ 0 <= score_call.returns[i]
    /\ score_call.returns[i] <= ScoreOne
    /\ score_call.returns[i] = score_call.returns[1]
    /\ score_call.self.accuracy_score = score_call.returns[Len(score_call.returns)]

\* the upper end of the interval is reached, twice
C22_Witness ==
  /\ Len(score_call.returns) = 2
  /\ score_call.returns[2] = ScoreOne
  /\ score_call.self.accuracy_score = ScoreOne

\* parts of the score, in units of 1/ScoreOne
Share(hundredths, similarity) ==
  (hundredths * similarity * ScoreOne) \div (100 * SimilarityOne)
NameSimilarity(a, b) == _calculate_string_similarity(lower(a), lower(b))
AlbumTerm(c, g) ==
  IF g.album = <<>> THEN Share(10, SimilarityOne)
  ELSE Share(10, NameSimilarity(c.album, g.album))
Differ(c, g) ==
  IF c.duration >= g.duration THEN c.duration - g.duration
  ELSE g.duration - c.duration
DurationTerm(c, g) ==
  CASE c.duration > 0 /\ g.duration > 0 /\ Differ(c, g) <= 5 -> Share(10, SimilarityOne)
    [] c.duration > 0 /\ g.duration > 0 /\ Differ(c, g) > 5 /\ Differ(c, g) <= 30 ->
         Share(5, SimilarityOne)
    [] c.duration > 0 /\ g.duration > 0 /\ Differ(c, g) > 30 -> 0
    [] c.duration <= 0 \/ g.duration <= 0 -> Share(5, SimilarityOne)

\* C23: the score is 0.40 x title similarity + 0.40 x artist similarity + the
\* album term (0.10 x album similarity, the full 0.10 for an empty target
\* album) + the duration term (0.10 within 5 s, 0.05 within 30 s, 0 beyond,
\* 0.05 when a duration is unknown); an exact title and artist match with
\* unknown target album and durations within 3 s scores 1.0.
C23_WeightedSum ==
  \A i \in DOMAIN score_call.returns :
    LET c == score_call.self
        g == score_call.target
    IN /\ score_call.returns[i] =
            Share(40, NameSimilarity(c.title, g.title))
            + Share(40, NameSimilarity(c.artist, g.artist))
            + AlbumTerm(c, g) + DurationTerm(c, g)
       /\ (/\ c.title = g.title /\ c.artist = g.artist /\ g.album = <<>>
           /\ c.duration > 0 /\ g.duration > 0 /\ Differ(c, g) <= 3)
            => score_call.returns[i] = ScoreOne

\* the example of the claim: the names match exactly, the target has no
\* album, the durations are 100 and 103
C23_Witness ==
  /\ score_call.self.title = score_call.target.title
  /\ score_call.self.artist = score_call.target.artist
  /\ score_call.self.album = <<"a">>
  /\ score_call.target.album = <<>>
  /\ score_call.self.duration = 100
  /\ score_call.target.duration = 103
  /\ score_call.returns = <<ScoreOne>>

\* ------------------------------------- the service's threads and main loop
MaxEvCalls == 2

\* what a thread does with a function: st holds the main loop's queue, the
\* log of what has run, and the thread that is running
idle_add_calls_it(st, callback) ==
  [st EXCEPT !.ran = Append(@, [what |-> callback.type, call |-> callback.seq,
                                by |-> st.thread])]

\* GLib.idle_add(function, ...): the function is queued for the main loop
idle_add(st, callback) == [st EXCEPT !.idleq = Append(@, callback)]

\* the thread runs part of its own work
runs(st, what, call) ==
  [st EXCEPT !.ran = Append(@, [what |-> what, call |-> call, by |-> st.thread])]

OnThread(thread) == [idleq |-> idleq, ran |-> ran, thread |-> thread]

EvThread(kind, track, call, key, callback) ==
  [kind |-> kind, pc |-> "begin", track |-> track, epoch |-> 0, seq |-> call,
   key |-> key, callback |-> callback]
EvDone(t) ==
  [kind |-> workers[t].kind, pc |-> "finally", track |-> workers[t].track,
   epoch |-> 0, seq |-> workers[t].seq, key |-> workers[t].key]

EvRest == <<winVars, scanVars, histVars, rlVars, signals, cliVars, scoreVars,
            extVars>>

\* LyricsService.search_lyrics_async on the main loop, lines 66-82: with the
\* key registered, line 72 raises AttributeError and no thread is started
EvSearchAsync(track, callback) ==
  /\ ncalls < MaxEvCalls
  /\ LET key == search_key(track.artist, track.title)
         tid == FreeSlot(workers)
     IN IF key \in DOMAIN _current_searches /\ "cancel" \notin ThreadMethods
        THEN UNCHANGED <<workers, _current_searches>>
        ELSE /\ workers' = [workers EXCEPT ![tid] =
                              EvThread("search", track, ncalls + 1, key, callback)]
             /\ _current_searches' =
                  [k \in DOMAIN _current_searches \cup {key} |->
                     IF k = key THEN tid ELSE _current_searches[k]]
  /\ ncalls' = ncalls + 1
  /\ Quiet
  /\ UNCHANGED <<EvRest, nsearch, idleq, lrc_files, ran>>

\* LyricsService.download_lyrics_async on the main loop, lines 151-157
EvDownloadAsync(track, callback) ==
  /\ ncalls < MaxEvCalls
  /\ workers' = [workers EXCEPT ![FreeSlot(workers)] =
                   EvThread("download", track, ncalls + 1, <<>>, callback)]
  /\ ncalls' = ncalls + 1
  /\ Quiet
  /\ UNCHANGED <<EvRest, _current_searches, nsearch, idleq, lrc_files, ran>>

\* _search_lyrics_thread line 90 and _download_lyrics_thread line 165
EvBegin(t) ==
  /\ workers[t].kind \in {"search", "download"} /\ workers[t].pc = "begin"
  /\ LET started == IF workers[t].kind = "search" THEN "search-started"
                    ELSE "download-started"
         st == idle_add(OnThread("worker"),
                        Msg(started, workers[t].track, 0, workers[t].seq, <<>>))
     IN idleq' = st.idleq /\ ran' = st.ran
  /\ workers' = [workers EXCEPT ![t].pc = "work"]
  /\ Quiet
  /\ UNCHANGED <<EvRest, _current_searches, nsearch, ncalls, lrc_files>>

\* _search_lyrics_thread, lines 92-114: the search in the thread, then
\* _emit_search_completed is queued, or 'search-error' from the except branch
EvSearch(t) ==
  /\ workers[t].kind = "search" /\ workers[t].pc = "work"
  /\ \E outcome \in SearchOutcomes \cup {"raise"} :
       LET searched == runs(OnThread("worker"), "search_lyrics", workers[t].seq)
           emit == IF outcome = "raise"
                   THEN Msg("search-error", workers[t].track, 0, workers[t].seq, <<>>)
                   ELSE [Msg("_emit_search_completed", workers[t].track, 0,
                             workers[t].seq, search_lyrics(outcome))
                           EXCEPT !.epoch = IF workers[t].callback THEN 1 ELSE 0]
           st == idle_add(searched, emit)
       IN idleq' = st.idleq /\ ran' = st.ran
  /\ workers' = [workers EXCEPT ![t] = EvDone(t)]
  /\ Quiet
  /\ UNCHANGED <<EvRest, _current_searches, nsearch, ncalls, lrc_files>>

\* _download_lyrics_thread, lines 167-229: the save in the thread, then the
\* terminal signal is queued and, after download-completed, the callback
EvDownload(t) ==
  /\ workers[t].kind = "download" /\ workers[t].pc = "work"
  /\ \E method \in StorageMethods, lrc_ok \in BOOLEAN, metadata_ok \in BOOLEAN :
       LET out == _download_lyrics_thread(method, lrc_ok, metadata_ok)
           saved == runs(OnThread("worker"), "save", workers[t].seq)
           signal == idle_add(saved, Msg(out.event, workers[t].track, 0,
                                         workers[t].seq, <<>>))
           st == IF out.event = "download-completed" /\ workers[t].callback
                 THEN idle_add(signal, Msg("callback", workers[t].track, 0,
                                           workers[t].seq, <<>>))
                 ELSE signal
       IN /\ idleq' = st.idleq /\ ran' = st.ran
          /\ lrc_files' = IF out.save.lrc = "written"
                          THEN lrc_files \cup {get_lrc_file_path(workers[t].track.path)}
                          ELSE lrc_files
  /\ workers' = [workers EXCEPT ![t] = Free]
  /\ Quiet
  /\ UNCHANGED <<EvRest, _current_searches, nsearch, ncalls>>

\* the main loop runs the oldest pending function: self.emit, a callback, or
\* _emit_search_completed (lines 122-126), which emits search-completed and
\* then calls the callback it was given
EvMainLoop ==
  /\ idleq # <<>>
  /\ LET f == Head(idleq)
         first == runs(OnThread("main"),
                       IF f.type = "_emit_search_completed"
                       THEN "search-completed" ELSE f.type,
                       f.seq)
         st == IF f.type = "_emit_search_completed" /\ f.epoch = 1
               THEN runs(first, "callback", f.seq) ELSE first
     IN ran' = st.ran
  /\ idleq' = Tail(idleq)
  /\ Quiet
  /\ UNCHANGED <<EvRest, svcVars, ncalls, lrc_files>>

NextEv ==
  \/ \E track \in Tracks, callback \in BOOLEAN :
       EvSearchAsync(track, callback) \/ EvDownloadAsync(track, callback)
  \/ \E t \in Slots : EvBegin(t) \/ EvSearch(t) \/ EvDownload(t)
  \/ \E t \in Slots : SearchFinally(t) \/ SearchDel(t)
  \/ EvMainLoop

SpecEv == Init /\ [][NextEv]_vars

ServiceWork == {"search_lyrics", "save"}
ServiceEvents ==
  {"search-started", "search-completed", "search-error", "download-started",
   "download-completed", "download-error", "callback"}

\* C21: the search and the save are executed by a worker thread, and every
\* signal and every callback is executed by the main loop.
C21_EventsOnMainLoop ==
  \A i \in DOMAIN ran :
    /\ ran[i].what \in ServiceWork \cup ServiceEvents
    /\ ran[i].what \in ServiceWork => ran[i].by = "worker"
    /\ ran[i].what \in ServiceEvents => ran[i].by = "main"

\* a search and a download, both with a callback, have run to their end
C21_Witness ==
  /\ \A what \in {"search_lyrics", "search-started", "search-completed", "save",
                  "download-started", "download-completed"} :
       \E i \in DOMAIN ran : ran[i].what = what
  /\ \E i \in DOMAIN ran, j \in DOMAIN ran :
       i # j /\ ran[i].what = "callback" /\ ran[j].what = "callback"

\* ------------------------------------------- the in-flight map, unguarded
\* LyricsService.cancel_all_searches, lines 277-285: the loop over the threads
\* does nothing, then self._current_searches.clear(); the threads keep running
cancel_all_searches ==
  /\ _current_searches' = <<>>
  /\ Quiet
  /\ UNCHANGED <<winVars, workers, nsearch, scanVars, histVars, idleq,
                 lrc_files, offVars>>

\* search_lyrics_async and cancel_all_searches on the interactive thread, the
\* search threads with their finally block (line 118, then line 120), and the
\* main loop; no step takes a lock, as none of the three code paths does
NextMap ==
  \/ \E track \in Tracks : EvSearchAsync(track, FALSE)
  \/ cancel_all_searches
  \/ \E t \in Slots : EvBegin(t) \/ EvSearch(t)
  \/ \E t \in Slots : SearchFinally(t) \/ SearchDel(t)
  \/ EvMainLoop

SpecMap == Init /\ [][NextMap]_vars

\* C28: no step acts on a stale view of the in-flight map: when a search
\* thread's cleanup deletes its key (line 120), the key is still in the map
\* and still maps to that thread, as it did when line 118 looked.
C28_CleanupOnCurrentView ==
  [][\A t \in Slots :
       (workers[t].kind = "search" /\ workers[t].pc = "del" /\ workers'[t] = Free)
         => /\ workers[t].key \in DOMAIN _current_searches
            /\ _current_searches[workers[t].key] = t]_vars

\* C29: searches are told apart by the lower-cased (artist, title) pair: two
\* searches in flight whose artists and titles are equal after lower-casing
\* are one entry of the in-flight map, and two entries of the map never
\* belong to searches with the same lower-cased pair.
C29_IdentityIsLowerCased ==
  \A k1 \in DOMAIN _current_searches, k2 \in DOMAIN _current_searches :
    LET s1 == workers[_current_searches[k1]]
        s2 == workers[_current_searches[k2]]
    IN (s1.kind = "search" /\ s2.kind = "search")
         => (k1 = k2 <=> Identity(s1.track) = Identity(s2.track))

\* ---------------------------------------------------- FileService: writing
MaxWrites == 3

\* the .lrc paths written to, and the texts written
LrcPaths == {<<"p", ".lrc">>, <<"q", ".lrc">>}
Contents == {<<"l">>, <<"m">>}
\* what may lie on the disk before the first write: nothing, or a backup an
\* earlier run has left
StaleBackup == <<"p", ".lrc", ".backup">> :> <<"o">>

\* str(counter)
str(n) == <<"1", "2", "3", "4", "5", "6", "7", "8", "9">>[n]

\* os.path.exists
exists(files, path) == path \in DOMAIN files

\* the file at path holds content afterwards
store(files, path, content) ==
  [f \in DOMAIN files \cup {path} |-> IF f = path THEN content ELSE files[f]]

\* backup_existing_file, lines 219-225: f"{file_path}.backup", then
\* f"{file_path}.backup.{counter}" for counter = 1, 2, ... while the name is
\* taken
RECURSIVE unique_backup_path(_, _, _, _)
unique_backup_path(files, file_path, backup_path, counter) ==
  IF exists(files, backup_path)
  THEN unique_backup_path(files, file_path,
                          file_path \o <<".backup">> \o <<"." \o str(counter)>>,
                          counter + 1)
  ELSE backup_path

\* FileService.backup_existing_file, lines 213-233: None without a file at
\* the path; else shutil.copy2 to the first free backup name, and None again
\* when the copy raises
backup_existing_file(files, file_path, copy_raises) ==
  IF ~exists(files, file_path)
  THEN [files |-> files, returns |-> None]
  ELSE LET backup_path == unique_backup_path(files, file_path,
                                             file_path \o <<".backup">>, 1)
       IN IF copy_raises
          THEN [files |-> files, returns |-> None]
          ELSE [files |-> store(files, backup_path, files[file_path]),
                returns |-> backup_path]

\* FileService.write_lrc_file, lines 236-272: the backup when one is asked for
\* and the file exists (line 253), its result ignored; then makedirs and the
\* write, and False when either raises
write_lrc_file(files, lrc_path, content, create_backup, copy_raises, write_raises) ==
  LET backed == IF create_backup /\ exists(files, lrc_path)
                THEN backup_existing_file(files, lrc_path, copy_raises)
                ELSE [files |-> files, returns |-> None]
  IN [files |-> IF write_raises THEN backed.files
                ELSE store(backed.files, lrc_path, content),
      backup_path |-> backed.returns,
      returns |-> ~write_raises]

\* one call of write_lrc_file; shutil.copy2 and the write each succeed or
\* raise, as the file system decides
WriteLrcFile(lrc_path, content, create_backup, copy_raises, write_raises) ==
  /\ Len(fs_calls) < MaxWrites
  /\ LET out == write_lrc_file(disk, lrc_path, content, create_backup,
                               copy_raises, write_raises)
     IN /\ disk' = out.files
        /\ fs_calls' = Append(fs_calls,
             [lrc_path |-> lrc_path, content |-> content,
              create_backup |-> create_backup, before |-> disk,
              after |-> out.files, backup_path |-> out.backup_path,
              returns |-> out.returns])
  /\ UNCHANGED <<appVars, rlVars, dlVars, cliVars, scoreVars, evVars, cfgVars,
                 lateVars, writers, fs_log>>

InitFS ==
  /\ AppIdle /\ RLIdle /\ DlIdle /\ CliIdle
  /\ sim_call = NoSimCall /\ score_call = NoScoreCall /\ ran = <<>>
  /\ settings = [loaded |-> FALSE, values |-> <<>>] /\ cfg_call = NoCfgCall
  /\ LateIdle
  /\ disk \in {<<>>, StaleBackup}
  /\ fs_calls = <<>>
  /\ writers = <<>>
  /\ fs_log = <<>>

NextFS ==
  \E lrc_path \in LrcPaths, content \in Contents, create_backup \in BOOLEAN,
     copy_raises \in BOOLEAN, write_raises \in BOOLEAN :
    WriteLrcFile(lrc_path, content, create_backup, copy_raises, write_raises)

SpecFS == InitFS /\ [][NextFS]_vars

\* the files the call has added to the disk, the written path aside
BackupsMade(call) == (DOMAIN call.after \ DOMAIN call.before) \ {call.lrc_path}

\* C26: a write_lrc_file call with backup enabled makes a backup exactly when
\* a file existed at the path before the call; and when the same content is
\* written twice in a row to a path that was fresh (no file, no backup), the
\* first write makes no backup and the second makes <path>.backup holding
\* what the first write wrote.
C26_BackupIffFileExisted ==
  /\ \A i \in DOMAIN fs_calls :
       fs_calls[i].create_backup
         => (BackupsMade(fs_calls[i]) # {}
               <=> exists(fs_calls[i].before, fs_calls[i].lrc_path))
  /\ \A i \in DOMAIN fs_calls, j \in DOMAIN fs_calls :
       LET first == fs_calls[i]
           second == fs_calls[j]
           backup == first.lrc_path \o <<".backup">>
       IN ( /\ j = i + 1
            /\ first.create_backup /\ second.create_backup
            /\ first.returns /\ second.returns
            /\ first.lrc_path = second.lrc_path
            /\ first.content = second.content
            /\ ~exists(first.before, first.lrc_path)
            /\ ~exists(first.before, backup) )
          => /\ BackupsMade(first) = {}
             /\ BackupsMade(second) = {backup}
             /\ disk[backup] = first.content

\* ------------------------------------------------------- SettingsService
MaxCfgCalls == 3

\* the values of the LyricsSource enumeration (models/lyrics.py 25-30)
LyricsSource == {"lrclib", "genius", "musixmatch", "local"}

BooleanKeys == {"auto-download-lyrics", "overwrite-existing-lyrics",
                "enable-romanization", "romanize-chinese", "romanize-japanese",
                "romanize-korean"}
StringKeys == {"lyrics-language", "lyrics-storage-method", "romanization-mode"}
SettingsKeys == BooleanKeys \cup StringKeys \cup {"lyrics-sources-priority"}

\* what the backend may hold under a key
SourceLists == {<<>>, <<"bogus">>, <<"genius", "lrclib">>, <<"bogus", "local">>}
KeyValues(key) ==
  CASE key \in BooleanKeys -> BOOLEAN
    [] key = "lyrics-language" -> {"en", "id"}
    [] key = "lyrics-storage-method" -> {"lrc", "both"}
    [] key = "romanization-mode" -> {"replace", "multiline"}
    [] OTHER -> SourceLists

\* a backend whose stored values all differ from what the accessors fall
\* back to
StoredValues ==
  [key \in SettingsKeys |->
     CASE key \in {"auto-download-lyrics", "overwrite-existing-lyrics",
                   "enable-romanization"} -> TRUE
       [] key \in BooleanKeys -> FALSE
       [] key = "lyrics-language" -> "id"
       [] key = "lyrics-storage-method" -> "both"
       [] key = "romanization-mode" -> "multiline"
       [] OTHER -> <<"genius", "lrclib">>]

\* Gio.Settings get_boolean / get_string / get_strv, and set_*: the stored
\* value, and the backend with the value replaced
get_value(st, key) == st.values[key]
set_value(st, key, value) == [st EXCEPT !.values[key] = value]

\* get_lyrics_sources_priority, lines 52-66: the strings that name a
\* LyricsSource, in order; [LRCLIB] when none does
valid_sources(source_strings) ==
  LET sources == SelectSeq(source_strings, LAMBDA x : x \in LyricsSource)
  IN IF sources = <<>> THEN <<"lrclib">> ELSE sources

\* what each getter returns when self.settings is None (its first return):
\* lines 49, 85, 106, 127, 148, 169, 190, 211, 232, 253
without_settings(key) ==
  CASE key = "lyrics-sources-priority" -> <<"lrclib">>
    [] key = "auto-download-lyrics" -> FALSE
    [] key = "overwrite-existing-lyrics" -> FALSE
    [] key = "lyrics-language" -> "en"
    [] key = "lyrics-storage-method" -> "lrc"
    [] key = "enable-romanization" -> FALSE
    [] key = "romanize-chinese" -> TRUE
    [] key = "romanize-japanese" -> TRUE
    [] key = "romanize-korean" -> TRUE
    [] key = "romanization-mode" -> "replace"

\* a table whose Korean toggle falls back to False
on_exception_korean_false(key) ==
  IF key = "romanize-korean" THEN FALSE ELSE without_settings(key)

\* what each getter returns from its except branch:
\* lines 69, 91, 112, 133, 154, 175, 196, 217, 238, 259
on_exception(key) ==
  CASE key = "lyrics-sources-priority" -> <<"lrclib">>
    [] key = "auto-download-lyrics" -> FALSE
    [] key = "overwrite-existing-lyrics" -> FALSE
    [] key = "lyrics-language" -> "en"
    [] key = "lyrics-storage-method" -> "lrc"
    [] key = "enable-romanization" -> FALSE
    [] key = "romanize-chinese" -> TRUE
    [] key = "romanize-japanese" -> TRUE
    [] key = "romanize-korean" -> TRUE
    [] key = "romanization-mode" -> "replace"

\* the ten getters, lines 46-259, each of one shape: the fallback without
\* settings, else the backend's value (for the sources, the valid ones of
\* it), else the fallback of the except branch
getter(key, st, raises) ==
  IF ~st.loaded THEN without_settings(key)
  ELSE IF raises THEN on_exception(key)
  ELSE IF key = "lyrics-sources-priority"
       THEN valid_sources(get_value(st, key))
       ELSE get_value(st, key)

\* the ten setters, lines 71-269, each of one shape: return without settings,
\* else the backend's set_* call inside try / except Exception
setter(key, st, value, raises) ==
  IF ~st.loaded THEN st
  ELSE IF raises THEN st
  ELSE set_value(st, key, value)

CfgRest == <<appVars, rlVars, dlVars, cliVars, scoreVars, evVars, fsVars,
            lateVars>>

\* one getter is called; the backend's call raises or not
GetSetting(key, raises) ==
  /\ cfg_call.n < MaxCfgCalls
  /\ cfg_call' = [n |-> cfg_call.n + 1, op |-> "get", key |-> key,
                  raised |-> settings.loaded /\ raises,
                  before |-> settings, returns |-> getter(key, settings, raises)]
  /\ UNCHANGED <<settings, CfgRest>>

\* one setter is called
SetSetting(key, value, raises) ==
  /\ cfg_call.n < MaxCfgCalls
  /\ settings' = setter(key, settings, value, raises)
  /\ cfg_call' = [n |-> cfg_call.n + 1, op |-> "set", key |-> key,
                  raised |-> settings.loaded /\ raises,
                  before |-> settings, value |-> value]
  /\ UNCHANGED CfgRest

\* SettingsService.__init__, lines 33-40: the Gio.Settings object, or None
\* when creating it raised
InitCfg ==
  /\ AppIdle /\ RLIdle /\ DlIdle /\ CliIdle
  /\ sim_call = NoSimCall /\ score_call = NoScoreCall /\ ran = <<>>
  /\ disk = <<>> /\ fs_calls = <<>> /\ writers = <<>> /\ fs_log = <<>>
  /\ settings \in {[loaded |-> FALSE, values |-> <<>>],
                   [loaded |-> TRUE, values |-> StoredValues]}
  /\ cfg_call = NoCfgCall
  /\ LateIdle

NextCfg ==
  \E key \in SettingsKeys, raises \in BOOLEAN :
    \/ GetSetting(key, raises)
    \/ \E value \in KeyValues(key) : SetSetting(key, value, raises)

SpecCfg == InitCfg /\ [][NextCfg]_vars

\* the defaults the claim lists
DocumentedDefault(key) ==
  CASE key = "auto-download-lyrics" -> FALSE
    [] key = "overwrite-existing-lyrics" -> FALSE
    [] key = "lyrics-language" -> "en"
    [] key = "lyrics-storage-method" -> "lrc"
    [] key = "enable-romanization" -> FALSE
    [] key = "romanize-chinese" -> TRUE
    [] key = "romanize-japanese" -> TRUE
    [] key = "romanize-korean" -> TRUE
    [] key = "romanization-mode" -> "replace"
    [] key = "lyrics-sources-priority" -> <<"lrclib">>

BackendDown == ~cfg_call.before.loaded \/ cfg_call.raised

\* C27: with the settings backend unavailable, or its call raising, a getter
\* returns its documented default and a setter leaves the settings as they
\* were.
C27_DefaultsWhenBackendDown ==
  (cfg_call.n > 0 /\ BackendDown)
    => /\ cfg_call.op = "get" => cfg_call.returns = DocumentedDefault(cfg_call.key)
       /\ cfg_call.op = "set" => settings = cfg_call.before

\* a getter has fallen back to its default although the backend holds another
\* value under the key
C27_Witness ==
  /\ cfg_call.n > 0 /\ cfg_call.op = "get" /\ cfg_call.raised
  /\ get_value(settings, cfg_call.key) # cfg_call.returns
  /\ cfg_call.key = "romanize-korean"

\* the backup names of a path: <path>.backup and <path>.backup.N
BackupNames(path) ==
  {path \o <<".backup">>} \cup {path \o <<".backup", "." \o str(n)>> : n \in 1 .. 9}

\* C39: whenever write_lrc_file with create_backup returns True for a path
\* that held a file before the call, a backup file holds that file's previous
\* content afterwards.
C39_NeverOverwrittenWithoutBackup ==
  \A i \in DOMAIN fs_calls :
    LET call == fs_calls[i]
    IN (call.create_backup /\ call.returns /\ exists(call.before, call.lrc_path))
         => \E b \in BackupNames(call.lrc_path) \cap DOMAIN call.after :
              call.after[b] = call.before[call.lrc_path]

\* ------------------------------- FileService: writes from download threads
\* _download_lyrics_thread calls FileService.write_lrc_file in its own thread
\* (lyrics_service.py 195), and download_lyrics_async starts a thread per call
\* (lines 152-157): calls for one .lrc path can overlap
MaxWriters == 2
Writers == 1 .. MaxWriters

BkRest == <<appVars, rlVars, dlVars, cliVars, scoreVars, evVars, cfgVars,
           lateVars, fs_calls>>

\* write_lrc_file is entered; line 253: create_backup and os.path.exists
BkEnter(w, lrc_path, content, create_backup) ==
  /\ writers[w].pc = "idle"
  /\ writers' = [writers EXCEPT ![w] =
       [pc |-> IF create_backup /\ exists(disk, lrc_path) THEN "backup" ELSE "write",
        lrc_path |-> lrc_path, content |-> content, backup_path |-> None]]
  /\ UNCHANGED <<disk, fs_log, BkRest>>

\* backup_existing_file, lines 216-225: the exists test and the search for a
\* free backup name
BkName(w) ==
  /\ writers[w].pc = "backup"
  /\ LET file_path == writers[w].lrc_path
     IN writers' = [writers EXCEPT ![w] =
          IF ~exists(disk, file_path)
          THEN [@ EXCEPT !.pc = "write"]
          ELSE [@ EXCEPT !.pc = "copy",
                         !.backup_path = unique_backup_path(disk, file_path,
                                           file_path \o <<".backup">>, 1)]]
  /\ UNCHANGED <<disk, fs_log, BkRest>>

\* lines 227-233: shutil.copy2(file_path, backup_path), or its exception
BkCopy(w, copy_raises) ==
  /\ writers[w].pc = "copy"
  /\ IF copy_raises
     THEN UNCHANGED <<disk, fs_log>>
     ELSE /\ disk' = store(disk, writers[w].backup_path, disk[writers[w].lrc_path])
          /\ fs_log' = Append(fs_log, [op |-> "copy", by |-> w,
                                       file_path |-> writers[w].lrc_path,
                                       target |-> writers[w].backup_path,
                                       found |-> disk])
  /\ writers' = [writers EXCEPT ![w].pc = "write"]
  /\ UNCHANGED BkRest

\* lines 258-272: makedirs and the write, or their exception
BkWrite(w, write_raises) ==
  /\ writers[w].pc = "write"
  /\ IF write_raises
     THEN UNCHANGED <<disk, fs_log>>
     ELSE /\ disk' = store(disk, writers[w].lrc_path, writers[w].content)
          /\ fs_log' = Append(fs_log, [op |-> "write", by |-> w,
                                       file_path |-> writers[w].lrc_path,
                                       target |-> writers[w].lrc_path,
                                       found |-> disk])
  /\ writers' = [writers EXCEPT ![w].pc = "returned"]
  /\ UNCHANGED BkRest

\* an .lrc file and possibly a backup of it are there from earlier runs
InitBk ==
  /\ AppIdle /\ RLIdle /\ DlIdle /\ CliIdle
  /\ sim_call = NoSimCall /\ score_call = NoScoreCall /\ ran = <<>>
  /\ settings = [loaded |-> FALSE, values |-> <<>>] /\ cfg_call = NoCfgCall
  /\ LateIdle
  /\ disk \in {<<>>, <<"p", ".lrc">> :> <<"o">>,
               (<<"p", ".lrc">> :> <<"o">>) @@ StaleBackup}
  /\ fs_calls = <<>>
  /\ writers = [w \in Writers |-> [pc |-> "idle", lrc_path |-> <<>>,
                                    content |-> <<>>, backup_path |-> None]]
  /\ fs_log = <<>>

NextBk ==
  \/ \E w \in Writers, lrc_path \in LrcPaths, content \in Contents,
        create_backup \in BOOLEAN :
       BkEnter(w, lrc_path, content, create_backup)
  \/ \E w \in Writers : BkName(w)
  \/ \E w \in Writers, raises \in BOOLEAN : BkCopy(w, raises) \/ BkWrite(w, raises)

SpecBk == InitBk /\ [][NextBk]_vars

\* the name the claim gives a new backup of path: <path>.backup when that is
\* free, else <path>.backup.N for the smallest N >= 1 that is free
SmallestFreeBackup(files, path) ==
  IF ~exists(files, path \o <<".backup">>)
  THEN path \o <<".backup">>
  ELSE LET free == {n \in 1 .. 9 :
                      ~exists(files, path \o <<".backup", "." \o str(n)>>)}
           N == CHOOSE n \in free : \A k \in free : n <= k
       IN path \o <<".backup", "." \o str(N)>>

AllBackupNames == UNION {BackupNames(path) : path \in LrcPaths}

\* C38: every backup goes to the first free backup name of its file, and
\* nothing is ever copied or written onto a backup file that is already there.
C38_BackupNamesNeverReused ==
  \A i \in DOMAIN fs_log :
    LET e == fs_log[i]
    IN /\ e.op = "copy" => e.target = SmallestFreeBackup(e.found, e.file_path)
       /\ ~(e.target \in AllBackupNames /\ exists(e.found, e.target))

\* C32: when the two normalized strings differ and one of them has no word
\* (the string is empty, or nothing but punctuation and white space), the
\* similarity is 0.0.
C32_NoWordsNoSimilarity ==
  sim_call.ret # <<>> =>
    LET n1 == Trimmed(Kept(lower(sim_call.str1), WordOrSpace))
        n2 == Trimmed(Kept(lower(sim_call.str2), WordOrSpace))
    IN (n1 # n2 /\ (Words(n1) = {} \/ Words(n2) = {})) => sim_call.ret[1] = 0

\* ------------------------------------ from the tags to the search's target
UnknownArtist ==
  <<"U", "n", "k", "n", "o", "w", "n", " ", "A", "r", "t", "i", "s", "t">>
UnknownAlbum == <<"U", "n", "k", "n", "o", "w", "n", " ", "A", "l", "b", "u", "m">>

\* the tags of a file as _get_tag returns them (music_scanner.py 125-133):
\* None for a tag the file does not have
FileTags ==
  [title : {None, <<"a">>}, artist : {None, <<"a">>}, album : {None, <<"a">>},
   length : {0, 100}]

\* Python's `x or y`
or_else(x, y) == IF x = None \/ x = <<>> THEN y ELSE x

\* MusicScanner._extract_metadata, lines 101-120
_extract_metadata(stem, tags) ==
  [title |-> or_else(tags.title, stem),
   artist |-> or_else(tags.artist, UnknownArtist),
   album |-> or_else(tags.album, UnknownAlbum),
   duration_seconds |-> tags.length]

\* ComposerWindow._process_next_auto_download, lines 218-224: what the search
\* is given, which LyricsService hands on to LRCLibClient.search_lyrics and
\* that to calculate_accuracy_score unchanged
auto_download_target(music_file) ==
  [title |-> music_file.title, artist |-> music_file.artist,
   album |-> music_file.album, duration |-> music_file.duration_seconds]

\* a file is scanned, its track searched for, and a candidate scored
InitTag ==
  /\ AppIdle /\ RLIdle /\ DlIdle /\ CliIdle /\ ExtIdle
  /\ sim_call = NoSimCall
  /\ ran = <<>>
  /\ score_call \in
       {[self |-> c, tags |-> tags, returns |-> <<>>,
         target |-> auto_download_target(_extract_metadata(<<"s", "1">>, tags))] :
          c \in ScoreCandidates, tags \in FileTags}

NextTag == ScoreCall

SpecTag == InitTag /\ [][NextTag]_vars

\* C31: when the file has no album tag, every candidate of its search gets
\* the full album weight of 0.10, whatever the candidate's album is.
C31_NoAlbumTagNoPenalty ==
  \A i \in DOMAIN score_call.returns :
    LET c == score_call.self
        g == score_call.target
    IN score_call.tags.album = None
         => score_call.returns[i] =
              Share(40, NameSimilarity(c.title, g.title))
              + Share(40, NameSimilarity(c.artist, g.artist))
              + Share(10, SimilarityOne) + DurationTerm(c, g)

\* C34: in every state of the window the number of processed tracks lies
\* between 0 and the size of the batch.
C34_CompletedWithinTotal ==
  /\ 0 <= auto_download_completed
  /\ auto_download_completed <= auto_download_total

\* ------------------------------------------- the RateLimiter: every caller
\* wait_if_needed calls made in all; the clock counts up to MaxLiveClock and
\* from there on every time stamp moves one second into the past instead, so
\* that time never stops
MaxLiveCalls == 4
MaxLiveClock == 2 * time_window

Earlier(t) == IF t > 0 THEN t - 1 ELSE 0

\* a thread calls wait_if_needed and arrives at `with self.lock` (line 43)
RLCall(c) ==
  /\ callers[c].pc = "idle"
  /\ Len(grants) + Cardinality({d \in Callers : callers[d].pc # "idle"}) < MaxLiveCalls
  /\ callers' = [callers EXCEPT ![c].pc = "calling"]
  /\ UNCHANGED <<requests, lock, clock, grants, restVars>>

\* line 43: the lock is free and the waiting thread gets it
RLEnter(c) ==
  /\ callers[c].pc = "calling"
  /\ lock = 0
  /\ lock' = c
  /\ callers' = [callers EXCEPT ![c].pc = "locked"]
  /\ UNCHANGED <<requests, clock, grants, restVars>>

\* time passes
TickLive ==
  /\ IF clock < MaxLiveClock
     THEN /\ clock' = clock + 1
          /\ UNCHANGED <<requests, callers, grants>>
     ELSE /\ clock' = clock
          /\ requests' = [i \in DOMAIN requests |-> Earlier(requests[i])]
          /\ callers' = [c \in Callers |->
                          [callers[c] EXCEPT !.now = Earlier(@)]]
          /\ grants' = [i \in DOMAIN grants |->
                         [grants[i] EXCEPT !.t = Earlier(@),
                                           !.oldest = Earlier(@)]]
  /\ UNCHANGED <<lock, restVars>>

NextRLLive ==
  \/ \E c \in Callers : RLCall(c) \/ RLEnter(c) \/ RLCheck(c) \/ RLWake(c)
  \/ TickLive

\* time advances, a thread that can go on does, and a thread waiting for the
\* lock gets it when the lock is free again and again
FairRL ==
  /\ WF_vars(TickLive)
  /\ \A c \in Callers :
       WF_vars(RLCheck(c)) /\ WF_vars(RLWake(c)) /\ SF_vars(RLEnter(c))

SpecRLLive == InitRL /\ [][NextRLLive]_vars /\ FairRL

\* C40: every wait_if_needed call returns in the end, with its request
\* granted, whatever the other callers do, also when a caller sleeps while it
\* holds the lock.
C40_EveryCallReturns ==
  \A c \in Callers : (callers[c].pc = "calling") ~> (callers[c].pc = "idle")

\* all calls have returned, one of them after a sleep with the lock held
C40_Witness ==
  /\ Len(grants) = MaxLiveCalls
  /\ \E i \in DOMAIN grants : grants[i].waited
  /\ \A c \in Callers : callers[c].pc = "idle"

\* --------------------------------------- the application's two API clients
\* ComposerWindow builds a LyricsService (window.py line 50) and so does the
\* LibraryView it holds (library_view.py line 49); each LyricsService builds
\* an LRCLibClient (lyrics_service.py line 46) and each client a RateLimiter
\* (lrclib_client.py line 68). The batch searches through the window's
\* service, a manual search through the view's.
Clients == {"window", "library_view"}
\* the threads that search at one time, and the last second of the clock
ApiThreads == 1 .. Cardinality(Clients)
MaxApiClock == time_window + 1

NoApiThread == [pc |-> "idle", client |-> "", now |-> 0, wait |-> 0]

ApiRest == <<appVars, rlVars, dlVars, cliVars, scoreVars, evVars, fsVars,
             cfgVars, file_service, cancelled>>

\* wait_if_needed returns (line 59) and the request goes out (line 142)
ApiGrant(th, now) ==
  LET client == api.threads[th].client
  IN api' = [api EXCEPT
               !.clients[client] =
                  [requests |-> Append(recent(@.requests, now), now), lock |-> 0],
               !.threads[th] = NoApiThread,
               !.sent = Append(@, [t |-> now, by |-> client])]

\* a search thread of one of the two services arrives in search_lyrics, line
\* 122, and takes the lock of that service's limiter (line 43)
ApiAcquire(th, client) ==
  /\ api.threads[th].pc = "idle"
  /\ api.clients[client].lock = 0
  /\ api' = [api EXCEPT !.clients[client].lock = th,
                        !.threads[th] = [NoApiThread EXCEPT !.pc = "locked",
                                                            !.client = client]]
  /\ UNCHANGED ApiRest

\* lines 44-54 and 59 on the limiter of the thread's client
ApiCheck(th) ==
  /\ api.threads[th].pc = "locked"
  /\ LET client == api.threads[th].client
         now == api.clock
         kept == recent(api.clients[client].requests, now)
     IN IF limit_reached(kept) /\ wait_time(now, MinOf(kept)) > 0
        THEN api' = [api EXCEPT
                       !.clients[client].requests = kept,
                       !.threads[th].pc = "sleeping",
                       !.threads[th].now = now,
                       !.threads[th].wait = wait_time(now, MinOf(kept))]
        ELSE ApiGrant(th, now)
  /\ UNCHANGED ApiRest

\* lines 54-59: the sleep is over
ApiWake(th) ==
  /\ api.threads[th].pc = "sleeping"
  /\ api.clock >= api.threads[th].now + api.threads[th].wait
  /\ ApiGrant(th, api.clock)
  /\ UNCHANGED ApiRest

\* time passes
ApiTick ==
  /\ api.clock < MaxApiClock
  /\ api' = [api EXCEPT !.clock = @ + 1]
  /\ UNCHANGED ApiRest

InitApi ==
  /\ AppIdle /\ RLIdle /\ DlIdle /\ CliIdle
  /\ sim_call = NoSimCall /\ score_call = NoScoreCall /\ ran = <<>>
  /\ disk = <<>> /\ fs_calls = <<>> /\ writers = <<>> /\ fs_log = <<>>
  /\ settings = [loaded |-> FALSE, values |-> <<>>] /\ cfg_call = NoCfgCall
  /\ file_service = NoFileService /\ cancelled = {}
  /\ api = [clients |-> [k \in Clients |-> [requests |-> <<>>, lock |-> 0]],
            threads |-> [th \in ApiThreads |-> NoApiThread],
            sent |-> <<>>,
            clock |-> 0]

NextApi ==
  \/ \E th \in ApiThreads :
       \/ \E client \in Clients : ApiAcquire(th, client)
       \/ ApiCheck(th)
       \/ ApiWake(th)
  \/ ApiTick

SpecApi == InitApi /\ [][NextApi]_vars

\* the requests sent in the time_window seconds that end with request i
SentInWindow(i) ==
  {j \in DOMAIN api.sent : /\ api.sent[j].t > api.sent[i].t - time_window
                           /\ api.sent[j].t <= api.sent[i].t}

\* C35: counting the requests of the batch (the window's service) and of the
\* manual downloads (the view's service) together, the window of time_window
\* seconds that ends at any request holds at most max_requests requests.
C35_AtMostMaxPerWindowInAll ==
  \A i \in DOMAIN api.sent : Cardinality(SentInWindow(i)) <= max_requests

\* ------------------------------------ FileService and the storage setting
MaxExistCalls == 3

MusicPaths == {T1.path, T3.path}

\* FileService._get_storage_method, lines 51-55: the class attribute, filled
\* from the settings when it is None; [file_service, returns]
_get_storage_method(fsv, st) ==
  IF fsv._cached_storage_method = "None"
  THEN LET method == getter("lyrics-storage-method", st, FALSE)
       IN [file_service |-> [fsv EXCEPT !._cached_storage_method = method],
           returns |-> method]
  ELSE [file_service |-> fsv, returns |-> fsv._cached_storage_method]

\* FileService.lrc_file_exists, lines 69-72
lrc_file_exists(fsv, music_file_path) == get_lrc_file_path(music_file_path) \in fsv.lrc

\* FileService._lyrics_exist_in_metadata, lines 155 and on
_lyrics_exist_in_metadata(fsv, music_file_path) == music_file_path \in fsv.embedded

\* FileService.lyrics_exist, lines 85-97, with the method it decided by
lyrics_exist(fsv, st, music_file_path) ==
  LET got == _get_storage_method(fsv, st)
      storage_method == got.returns
      in_lrc == lrc_file_exists(fsv, music_file_path)
      in_tags == _lyrics_exist_in_metadata(fsv, music_file_path)
  IN [file_service |-> got.file_service,
      storage_method |-> storage_method,
      returns |-> CASE storage_method = "lrc" -> in_lrc
                    [] storage_method = "metadata" -> in_tags
                    [] storage_method = "both" -> in_lrc /\ in_tags
                    [] OTHER -> in_lrc]

StoreRest == <<appVars, rlVars, dlVars, cliVars, scoreVars, evVars, fsVars,
               cfg_call, api, cancelled>>

\* PreferencesDialog._on_storage_method_changed, lines 227-232
_on_storage_method_changed(selected) ==
  /\ selected \in 1 .. 3
  /\ settings' = setter("lyrics-storage-method", settings,
                        <<"lrc", "metadata", "both">>[selected], FALSE)
  /\ settings' # settings
  /\ UNCHANGED <<file_service, StoreRest>>

\* one lyrics_exist call; `download` is the method _download_lyrics_thread
\* reads at that moment (lyrics_service.py line 185)
LyricsExist(music_file_path) ==
  /\ Len(file_service.calls) < MaxExistCalls
  /\ LET out == lyrics_exist(file_service, settings, music_file_path)
     IN file_service' =
          [out.file_service EXCEPT !.calls =
             Append(@, [music_file_path |-> music_file_path,
                        storage_method |-> out.storage_method,
                        download |-> getter("lyrics-storage-method", settings, FALSE),
                        lrc |-> lrc_file_exists(file_service, music_file_path),
                        metadata |-> _lyrics_exist_in_metadata(file_service,
                                                               music_file_path),
                        returns |-> out.returns])]
  /\ UNCHANGED <<settings, StoreRest>>

InitStore ==
  /\ AppIdle /\ RLIdle /\ DlIdle /\ CliIdle
  /\ sim_call = NoSimCall /\ score_call = NoScoreCall /\ ran = <<>>
  /\ disk = <<>> /\ fs_calls = <<>> /\ writers = <<>> /\ fs_log = <<>>
  /\ cfg_call = NoCfgCall /\ api = NoApi /\ cancelled = {}
  /\ \E method \in StorageMethods :
       settings = [loaded |-> TRUE,
                   values |-> [StoredValues EXCEPT !["lyrics-storage-method"] = method]]
  /\ \E lrc \in SUBSET {get_lrc_file_path(m) : m \in MusicPaths},
        embedded \in SUBSET MusicPaths :
       file_service = [NoFileService EXCEPT !.lrc = lrc, !.embedded = embedded]

NextStore ==
  \/ \E selected \in 1 .. 3 : _on_storage_method_changed(selected)
  \/ \E music_file_path \in MusicPaths : LyricsExist(music_file_path)

SpecStore == InitStore /\ [][NextStore]_vars

\* C37: every lyrics_exist call decides by the storage method that is set
\* when it is called, the one a download started at that moment would save
\* by: lrc looks for the .lrc file, metadata for lyrics in the tags, both for
\* the two together.
C37_ExistenceByCurrentSetting ==
  \A i \in DOMAIN file_service.calls :
    LET call == file_service.calls[i]
    IN /\ call.storage_method = call.download
       /\ call.returns = CASE call.download = "lrc" -> call.lrc
                           [] call.download = "metadata" -> call.metadata
                           [] OTHER -> call.lrc /\ call.metadata

\* ------------------------------------------------- the scanner, cancelled
\* the user chooses directories and goes back to the welcome view, the scan
\* threads run, and the main loop delivers their events
NextScan ==
  \/ \E files \in DirListings : _on_directory_selected(files)
  \/ _on_back_button_clicked
  \/ \E i \in 1 .. MaxSelections :
       ScanCount(i) \/ ScanWalk(i) \/ ScanFile(i) \/ ScanCompleted(i)
  \/ DispatchFileFound
  \/ DispatchScanCompleted

SpecScan == Init /\ [][NextScan]_vars

\* C36: a scan that was running when cancel_scan was called queues no event
\* from then on, neither file-found nor scan-completed, whatever follows,
\* another scan_directory_async included.
C36_CancelledScanIsSilent ==
  [][\A i \in cancelled :
       scans'[i] # scans[i] => Len(idleq') <= Len(idleq)]_vars

\* ------------------------------------------- a search, from start to end
\* search_lyrics_async and cancel_all_searches on the interactive thread, the
\* search threads, and the main loop
SearchThread(t) == EvBegin(t) \/ EvSearch(t) \/ SearchFinally(t) \/ SearchDel(t)

NextSearch ==
  \/ \E track \in {T1, T3}, callback \in BOOLEAN : EvSearchAsync(track, callback)
  \/ cancel_all_searches
  \/ \E t \in Slots : SearchThread(t)
  \/ EvMainLoop

\* a started thread goes on (the client's request ends, by its answer or its
\* timeout), and the main loop runs what is queued
FairSearch ==
  /\ WF_vars(EvMainLoop)
  /\ \A t \in Slots : WF_vars(SearchThread(t))

SpecSearch == Init /\ [][NextSearch]_vars /\ FairSearch

\* what the main loop has run for one search_lyrics_async call, oldest first
SearchEventsOf(c) ==
  LET mine == SelectSeq(ran, LAMBDA r : r.call = c /\ r.by = "main")
  IN [i \in DOMAIN mine |-> mine[i].what]

SearchOrders ==
  {<<"search-started", "search-completed">>,
   <<"search-started", "search-completed", "callback">>,
   <<"search-started", "search-error">>}

IsPrefix(s, full) == Len(s) <= Len(full) /\ \A i \in DOMAIN s : s[i] = full[i]

\* the call's thread is running
Searching(c) == \E t \in Slots : workers[t].kind = "search" /\ workers[t].seq = c

\* the call's thread has ended and nothing of it is pending
SearchOver(c) ==
  /\ ~Searching(c)
  /\ \A i \in DOMAIN idleq : idleq[i].seq # c

\* C33: a search that has started ends once: the main loop runs
\* search-started and then one terminal event, search-completed (followed at
\* once by the callback, when the caller gave one) or search-error, never a
\* second one; the search comes to its end; and when its thread ends its key
\* is in the in-flight map no more.
C33_SearchEndsOnce ==
  /\ [](\A c \in 1 .. MaxEvCalls :
          \E full \in SearchOrders : IsPrefix(SearchEventsOf(c), full))
  /\ [][/\ \A t \in Slots :
             (workers[t].kind = "search" /\ workers'[t] = Free)
               => workers[t].key \notin DOMAIN _current_searches'
        /\ (idleq # <<>> /\ idleq' = Tail(idleq)
              /\ Head(idleq).type = "_emit_search_completed")
             => ((Head(idleq).epoch = 1) <=> (ran'[Len(ran')].what = "callback"))]_vars
  /\ \A c \in 1 .. MaxEvCalls :
       Searching(c) ~> (SearchOver(c) /\ SearchEventsOf(c) \in SearchOrders)

\* two searches are over: one completed and its callback was called, the
\* other failed; nothing of them is left in the map
C33_Witness ==
  /\ SearchOver(1) /\ SearchOver(2)
  /\ \E c \in 1 .. 2 :
       SearchEventsOf(c) = <<"search-started", "search-completed", "callback">>
  /\ \E c \in 1 .. 2 : SearchEventsOf(c) = <<"search-started", "search-error">>
  /\ _current_searches = <<>>

====
